---- MODULE Spec2Model ----
(***************************************************************************)
(* DNA Parallax (jquery.parallax.js, the variant with timeline modifiers   *)
(* and the scroll/frame scheduler, src/unnamed/part_000 lines 379-882).    *)
(*                                                                         *)
(* JavaScript numbers are modelled as exact rationals <<n, d>> (d > 0, in  *)
(* lowest terms) plus the three special values NaN, Infinity, -Infinity.   *)
(* JavaScript strings are modelled as sequences of one-character strings.  *)
(***************************************************************************)
EXTENDS Integers, Sequences, FiniteSets, TLC

VARIABLES
    prop,       \* SpecProp: the DnaProp under test, [name, list]
    call,       \* SpecProp: the last call made on it and what it returned
    sheets,     \* document.styleSheets
    allRules,   \* the cache of @keyframes rules found so far, by name
    attrA,      \* SpecAnim: the text of the parallax attribute given to new DnaAnim()
    built,      \* SpecAnim: what the last new DnaAnim(attrA) produced or threw
    geom,       \* the layout: top and height of every node
    conf,       \* the parallax and parallax-container attributes of every element
    scrollTop,  \* $window.scrollTop()
    winHeight,  \* $window.height()
    parallax,   \* element.parallax of every element: a DnaParallax or Null
    attrs,      \* the attributes the plugin writes on the nodes
    data,       \* $node.data('parallaxOffset') of every node, <<>> when not set
    css,        \* the mapping last handed to $element.css() by step()
    willChange, \* the will-change style of every element
    viewTop, viewTopLast, viewHeight, scrolling, lock,   \* the module's variables
    timerPending,   \* whether a setTimeout(scrollingOff, 24) has yet to fire
    frames          \* the callbacks queued with window.requestAnimationFrame

propVars == <<prop, call>>
animVars == <<attrA, built>>
cssVars == <<sheets, allRules>>
pageVars == <<geom, conf, scrollTop, winHeight>>
engineVars == <<parallax, attrs, data, css, willChange, viewTop, viewTopLast, viewHeight,
                scrolling, lock, timerPending, frames>>
vars == <<prop, call, sheets, allRules, attrA, built, geom, conf, scrollTop, winHeight,
          parallax, attrs, data, css, willChange, viewTop, viewTopLast, viewHeight,
          scrolling, lock, timerPending, frames>>

(***************************************************************************)
(* Bounds of the model.                                                    *)
(***************************************************************************)
MaxEntries == 3         \* longest timeline built by add() in SpecProp
MaxFracDigits == 6      \* fractional digits printed for a non-terminating quotient

(***************************************************************************)
(* Numbers.                                                                *)
(***************************************************************************)
\* The special values share the shape of a rational; their denominator is not positive.
NaN == <<0, 0>>
PosInf == <<1, 0>>
NegInf == <<-1, 0>>
undefined == <<0, -1>>

Abs(x) == IF x < 0 THEN -x ELSE x

RECURSIVE GCD(_, _)
GCD(a, b) == IF b = 0 THEN a ELSE GCD(b, a % b)

Rat(n, d) ==
    LET g == GCD(Abs(n), Abs(d))
        s == IF d < 0 THEN -1 ELSE 1
    IN  <<(s * n) \div g, (s * d) \div g>>

IsRat(x) == x[2] > 0

Zero == <<0, 1>>
One == <<1, 1>>

RAdd(a, b) ==
    LET l == (a[2] \div GCD(a[2], b[2])) * b[2]
    IN  Rat(a[1] * (l \div a[2]) + b[1] * (l \div b[2]), l)

RNeg(a) == <<-a[1], a[2]>>

RSub(a, b) == RAdd(a, RNeg(b))

RMul(a, b) ==
    LET g1 == GCD(Abs(a[1]), b[2])
        g2 == GCD(Abs(b[1]), a[2])
    IN  Rat((a[1] \div g1) * (b[1] \div g2), (a[2] \div g2) * (b[2] \div g1))

RDiv(a, b) == RMul(a, Rat(b[2], b[1]))

RLt(a, b) == a[1] * b[2] < b[1] * a[2]

RLe(a, b) == a[1] * b[2] <= b[1] * a[2]

\* JavaScript's ==, < and > on numbers: every comparison with NaN is false.
NumEq(a, b) ==
    IF a = NaN \/ b = NaN THEN FALSE ELSE a = b

NumLt(a, b) ==
    IF a = NaN \/ b = NaN THEN FALSE
    ELSE IF a = PosInf \/ b = NegInf THEN FALSE
    ELSE IF a = NegInf \/ b = PosInf THEN TRUE
    ELSE RLt(a, b)

NumGt(a, b) == NumLt(b, a)

(***************************************************************************)
(* Strings as sequences of characters.                                     *)
(***************************************************************************)
Digits == {"0", "1", "2", "3", "4", "5", "6", "7", "8", "9"}

DigitVal(c) ==
    CASE c = "0" -> 0 [] c = "1" -> 1 [] c = "2" -> 2 [] c = "3" -> 3
      [] c = "4" -> 4 [] c = "5" -> 5 [] c = "6" -> 6 [] c = "7" -> 7
      [] c = "8" -> 8 [] c = "9" -> 9

DigitChar(n) == <<"0", "1", "2", "3", "4", "5", "6", "7", "8", "9">>[n + 1]

\* Number of consecutive digits of s from position i on.
RECURSIVE DigitsRun(_, _)
DigitsRun(s, i) ==
    IF i <= Len(s) /\ s[i] \in Digits THEN 1 + DigitsRun(s, i + 1) ELSE 0

\* Value of the digit string s read as a decimal integer.
RECURSIVE DigitsValue(_)
DigitsValue(s) ==
    IF s = <<>> THEN 0
    ELSE 10 * DigitsValue(SubSeq(s, 1, Len(s) - 1)) + DigitVal(s[Len(s)])

RECURSIVE Pow10(_)
Pow10(k) == IF k = 0 THEN 1 ELSE 10 * Pow10(k - 1)

\* parseFloat: the longest prefix [+-]?digits[.digits] of s as a number, NaN
\* when s has no such prefix (exponents are outside the model's inputs).
ParseFloatMutant(s) ==
    LET sg == IF Len(s) >= 1 /\ s[1] \in {"+", "-"} THEN 1 ELSE 0
        n1 == DigitsRun(s, sg + 1)
        j  == sg + n1 + 1
        n2 == IF j <= Len(s) /\ s[j] = "." THEN DigitsRun(s, j + 1) ELSE 0
    IN  IF n1 = 0 /\ n2 = 0 THEN NaN
        ELSE RAdd(<<DigitsValue(SubSeq(s, sg + 1, sg + n1)), 1>>,
                  Rat(DigitsValue(SubSeq(s, j + 1, j + n2)), Pow10(n2)))

ParseFloat(s) ==
    LET sg == IF Len(s) >= 1 /\ s[1] \in {"+", "-"} THEN 1 ELSE 0
        n1 == DigitsRun(s, sg + 1)
        j  == sg + n1 + 1
        n2 == IF j <= Len(s) /\ s[j] = "." THEN DigitsRun(s, j + 1) ELSE 0
        ip == DigitsValue(SubSeq(s, sg + 1, sg + n1))
        fp == DigitsValue(SubSeq(s, j + 1, j + n2))
        mag == RAdd(<<ip, 1>>, Rat(fp, Pow10(n2)))
    IN  IF n1 = 0 /\ n2 = 0 THEN NaN
        ELSE IF sg = 1 /\ s[1] = "-" THEN RNeg(mag) ELSE mag

RECURSIVE NatToStr(_)
NatToStr(n) ==
    IF n < 10 THEN <<DigitChar(n)>>
    ELSE NatToStr(n \div 10) \o <<DigitChar(n % 10)>>

\* The fractional digits of r / d (0 <= r < d) by long division, at most k of them.
RECURSIVE FracDigits(_, _, _)
FracDigits(r, d, k) ==
    IF r = 0 \/ k = 0 THEN <<>>
    ELSE <<DigitChar((10 * r) \div d)>> \o FracDigits((10 * r) % d, d, k - 1)

RECURSIVE StripZeros(_)
StripZeros(s) ==
    IF s # <<>> /\ s[Len(s)] = "0" THEN StripZeros(SubSeq(s, 1, Len(s) - 1)) ELSE s

\* Number to string, as string concatenation and String.replace convert it:
\* the decimal expansion, cut after MaxFracDigits fractional digits.
NumToStr(x) ==
    IF x = NaN \/ x = undefined THEN <<"N", "a", "N">>
    ELSE IF x = PosInf THEN <<"I", "n", "f", "i", "n", "i", "t", "y">>
    ELSE IF x = NegInf THEN <<"-", "I", "n", "f", "i", "n", "i", "t", "y">>
    ELSE LET a  == Abs(x[1])
             fr == StripZeros(FracDigits(a % x[2], x[2], MaxFracDigits))
             mg == NatToStr(a \div x[2]) \o (IF fr = <<>> THEN <<>> ELSE <<".">> \o fr)
         IN  IF x[1] < 0 /\ (a \div x[2] # 0 \/ fr # <<>>) THEN <<"-">> \o mg ELSE mg

\* Length of the match of /[+-]?[0-9]+(\.[0-9]+)?/ at position i of s, 0 if none.
MatchAt(s, i) ==
    LET sg == IF i <= Len(s) /\ s[i] \in {"+", "-"} THEN 1 ELSE 0
        n1 == DigitsRun(s, i + sg)
        j  == i + sg + n1
        n2 == IF j <= Len(s) /\ s[j] = "." THEN DigitsRun(s, j + 1) ELSE 0
    IN  IF n1 = 0 THEN 0 ELSE sg + n1 + (IF n2 > 0 THEN 1 + n2 ELSE 0)

\* styleText.match(re): the matched literals, left to right.
RECURSIVE MatchAll(_, _)
MatchAll(s, i) ==
    IF i > Len(s) THEN <<>>
    ELSE LET m == MatchAt(s, i)
         IN  IF m = 0 THEN MatchAll(s, i + 1)
             ELSE <<SubSeq(s, i, i + m - 1)>> \o MatchAll(s, i + m)

\* styleText.replace(re, '@')
RECURSIVE ReplaceAll(_, _)
ReplaceAll(s, i) ==
    IF i > Len(s) THEN <<>>
    ELSE LET m == MatchAt(s, i)
         IN  IF m = 0 THEN <<s[i]>> \o ReplaceAll(s, i + 1)
             ELSE <<"@">> \o ReplaceAll(s, i + m)

\* template.replace('@', r): only the first '@' is replaced, if there is one.
RECURSIVE IndexOf(_, _, _)
IndexOf(s, c, i) ==
    IF i > Len(s) THEN 0 ELSE IF s[i] = c THEN i ELSE IndexOf(s, c, i + 1)

ReplaceFirstMutant(s, c, r) ==
    LET k == IndexOf(s, c, 1)
    IN  IF k = 0 THEN s \o r ELSE SubSeq(s, 1, k - 1) \o r \o SubSeq(s, k + 1, Len(s))

ReplaceFirst(s, c, r) ==
    LET k == IndexOf(s, c, 1)
    IN  IF k = 0 THEN s ELSE SubSeq(s, 1, k - 1) \o r \o SubSeq(s, k + 1, Len(s))

(***************************************************************************)
(* DnaProp: one property's values at its keyframes.                        *)
(***************************************************************************)
NewDnaProp(name) == [name |-> name, list |-> <<>>]

\* The object add() builds from (progress, styleText).
Keyframe(progress, styleText) ==
    [progress  |-> progress,
     styleText |-> styleText,
     values    |-> [k \in 1..Len(MatchAll(styleText, 1)) |->
                        ParseFloat(MatchAll(styleText, 1)[k])],
     template  |-> ReplaceAll(styleText, 1)]

\* list.sort(function(a, b) {return a.progress - b.progress;})
SortByProgressMutant(list) == list

InsertSortedMutant(sorted, obj) == <<obj>> \o sorted

RECURSIVE InsertSorted(_, _)
InsertSorted(sorted, obj) ==
    IF sorted = <<>> THEN <<obj>>
    ELSE IF RLt(obj.progress, sorted[1].progress)
         THEN <<obj>> \o sorted
         ELSE <<sorted[1]>> \o InsertSorted(Tail(sorted), obj)

RECURSIVE SortByProgress(_)
SortByProgress(list) ==
    IF list = <<>> THEN <<>>
    ELSE InsertSorted(SortByProgress(SubSeq(list, 1, Len(list) - 1)), list[Len(list)])

DnaPropAddMutant(p, progress, styleText) ==
    IF \E i \in 1..Len(p.list) : NumEq(p.list[i].progress, progress)
    THEN p
    ELSE [p EXCEPT !.list = SortByProgress(Append(p.list, Keyframe(progress, styleText)))]

DnaPropAdd(p, progress, styleText) ==
    LET obj == Keyframe(progress, styleText)
        same == {i \in 1..Len(p.list) : NumEq(p.list[i].progress, progress)}
    IN  IF same # {}
        THEN LET i == CHOOSE k \in same : \A m \in same : k <= m
             IN  [p EXCEPT !.list[i] = obj]
        ELSE [p EXCEPT !.list = SortByProgress(Append(p.list, obj))]

\* fixValue(index): index is 0-based.
FixValueMutant(name, index) == undefined

FixValue(name, index) ==
    IF Len(name) >= 5 /\ SubSeq(name, Len(name) - 4, Len(name)) = <<"c", "o", "l", "o", "r">>
       /\ index = 3
    THEN One ELSE undefined

\* The loop that finds the closest keyframes: a direct hit, or before/after
\* (0 stands for a variable that was never assigned).
RECURSIVE FindClosest(_, _, _, _)
FindClosest(list, progress, i, before) ==
    IF i > Len(list) THEN [hit |-> 0, before |-> before, after |-> 0]
    ELSE IF NumEq(list[i].progress, progress)
         THEN [hit |-> i, before |-> before, after |-> 0]
    ELSE IF NumLt(list[i].progress, progress)
         THEN FindClosest(list, progress, i + 1, i)
    ELSE [hit |-> 0, before |-> before, after |-> i]

\* What get() returns on a direct hit of keyframe kf.
DirectHitMutant(kf) == kf.template

DirectHit(kf) == kf.styleText

ValueAt(values, i) == IF i + 1 <= Len(values) THEN values[i + 1] ELSE undefined

\* isNaN(v) for v a number or undefined.
IsNaN(v) == v = undefined \/ v = NaN

OrElse(a, b) == IF a = undefined \/ a = NaN \/ a = Zero THEN b ELSE a

\* One interpolated number: val1 + (val2 - val1) * ratio.
LerpMutant(val1, val2, ratio) == RAdd(val2, RMul(RSub(val1, val2), ratio))

Lerp(val1, val2, ratio) == RAdd(val1, RMul(RSub(val2, val1), ratio))

\* The loop over the value positions i = from .. maxIndex - 1.
RECURSIVE Interpolate(_, _, _, _, _, _, _)
Interpolate(name, template, before, after, ratio, i, maxIndex) ==
    IF i >= maxIndex THEN template
    ELSE LET v1 == ValueAt(before.values, i)
             v2 == ValueAt(after.values, i)
             val1 == IF IsNaN(v1) THEN OrElse(FixValue(name, i), v2) ELSE v1
             val2 == IF IsNaN(v2) THEN OrElse(FixValue(name, i), val1) ELSE v2
         IN  Interpolate(name,
                         ReplaceFirst(template, "@", NumToStr(Lerp(val1, val2, ratio))),
                         before, after, ratio, i + 1, maxIndex)

Max(a, b) == IF a > b THEN a ELSE b

TypeError == <<"TypeError">>

\* The guard at the head of get(): the progress is outside of the range.
OutOfRangeMutant(progress) == NumGt(progress, One) \/ ~NumGt(progress, Zero)

OutOfRange(progress) == NumGt(progress, One) \/ NumLt(progress, Zero)

DnaPropGet(p, progress) ==
    IF OutOfRange(progress) THEN <<>>
    ELSE LET c == FindClosest(p.list, progress, 1, 0)
         IN  IF c.hit # 0 THEN DirectHit(p.list[c.hit])
             ELSE IF c.before = 0
                  THEN (IF c.after = 0 THEN TypeError ELSE p.list[c.after].styleText)
             ELSE IF c.after = 0 THEN p.list[c.before].styleText
             ELSE LET before == p.list[c.before]
                      after  == p.list[c.after]
                      ratio  == RDiv(RSub(progress, before.progress),
                                     RSub(after.progress, before.progress))
                  IN  Interpolate(p.name, before.template, before, after, ratio, 0,
                                  Max(Len(after.values), Len(before.values)))

(***************************************************************************)
(* String helpers of the attribute and keyText parsing.                    *)
(***************************************************************************)
IsSpace(c) == c \in {" ", "\t", "\n"}

RECURSIVE TrimLeft(_)
TrimLeft(s) == IF s # <<>> /\ IsSpace(s[1]) THEN TrimLeft(Tail(s)) ELSE s

RECURSIVE TrimRight(_)
TrimRight(s) ==
    IF s # <<>> /\ IsSpace(s[Len(s)]) THEN TrimRight(SubSeq(s, 1, Len(s) - 1)) ELSE s

\* $.trim(s)
Trim(s) == TrimRight(TrimLeft(s))

\* First position >= i of s whose character is no white space (Len(s) + 1 if none).
RECURSIVE SkipSpaces(_, _)
SkipSpaces(s, i) == IF i <= Len(s) /\ IsSpace(s[i]) THEN SkipSpaces(s, i + 1) ELSE i

\* s.replace(/\s*([,(:])\s*/g, '$1'): white space around ',', '(' and ':' goes.
RECURSIVE TightenFrom(_, _)
TightenFrom(s, i) ==
    IF i > Len(s) THEN <<>>
    ELSE LET j == SkipSpaces(s, i)
         IN  IF j <= Len(s) /\ s[j] \in {",", "(", ":"}
             THEN <<s[j]>> \o TightenFrom(s, SkipSpaces(s, j + 1))
             ELSE <<s[i]>> \o TightenFrom(s, i + 1)

Tighten(s) == TightenFrom(s, 1)

\* s.split(c) for a one-character separator c.
RECURSIVE SplitChar(_, _)
SplitChar(s, c) ==
    LET k == IndexOf(s, c, 1)
    IN  IF k = 0 THEN <<s>>
        ELSE <<SubSeq(s, 1, k - 1)>> \o SplitChar(SubSeq(s, k + 1, Len(s)), c)

\* First position >= i of s whose character is white space (Len(s) + 1 if none).
RECURSIVE SkipWord(_, _)
SkipWord(s, i) == IF i <= Len(s) /\ ~IsSpace(s[i]) THEN SkipWord(s, i + 1) ELSE i

\* s.split(/\s+/)
RECURSIVE SplitSpaces(_)
SplitSpaces(s) ==
    LET k == SkipWord(s, 1)
    IN  IF k > Len(s) THEN <<s>>
        ELSE <<SubSeq(s, 1, k - 1)>> \o SplitSpaces(SubSeq(s, SkipSpaces(s, k), Len(s)))

\* s.match(sub): whether sub occurs in s.
Contains(s, sub) ==
    \E i \in 1..(Len(s) - Len(sub) + 1) : SubSeq(s, i, i + Len(sub) - 1) = sub

\* First position >= i of s whose character is none of ',', '(' and ')'.
RECURSIVE SkipBrackets(_, _)
SkipBrackets(s, i) ==
    IF i <= Len(s) /\ s[i] \in {",", "(", ")"} THEN SkipBrackets(s, i + 1) ELSE i

\* s.replace(/[,()]+/g, ' ')
RECURSIVE BlankBrackets(_)
BlankBrackets(s) ==
    IF s = <<>> THEN <<>>
    ELSE IF s[1] \in {",", "(", ")"}
         THEN <<" ">> \o BlankBrackets(SubSeq(s, SkipBrackets(s, 1), Len(s)))
         ELSE <<s[1]>> \o BlankBrackets(Tail(s))

\* s.replace(/[^0-9%.,]+/g, '')
KeepKeyChars(s) == SelectSeq(s, LAMBDA c : c \in Digits \cup {"%", ".", ","})

\* JavaScript arithmetic on numbers that may be NaN.
NumAdd(a, b) == IF IsRat(a) /\ IsRat(b) THEN RAdd(a, b) ELSE NaN

NumSub(a, b) == IF IsRat(a) /\ IsRat(b) THEN RSub(a, b) ELSE NaN

NumMul(a, b) == IF IsRat(a) /\ IsRat(b) THEN RMul(a, b) ELSE NaN

Hundred == <<100, 1>>

NumDivHundred(a) == IF IsRat(a) THEN RDiv(a, Hundred) ELSE NaN

(***************************************************************************)
(* Style sheets and their rules.                                           *)
(***************************************************************************)
KEYFRAMES_RULE == 7
STYLE_RULE == 1

(***************************************************************************)
(* DnaAnim: the animation settings built from the parallax attribute.      *)
(***************************************************************************)
S_reverse == <<"r", "e", "v", "e", "r", "s", "e">>
S_shift == <<"s", "h", "i", "f", "t">>
S_scale == <<"s", "c", "a", "l", "e">>
S_debugger == <<"d", "e", "b", "u", "g", "g", "e", "r">>
S_colon_debugger == <<":", "d", "e", "b", "u", "g", "g", "e", "r">>
S_CannotFindAnimation == <<"C", "a", "n", "n", "o", "t", " ", "f", "i", "n", "d", " ", "a", "n", "i", "m", "a", "t", "i", "o", "n", " ">>

NoRule == [type |-> 0, name |-> <<>>, cssRules |-> <<>>]

\* modifiers.map(...): "scale(1.3,2)" => ["scale", "1.3", "2"]
SplitModifier(mod) == SplitSpaces(Trim(BlankBrackets(mod)))

\* mod[1] || dflt, then parseFloat
ModArg(mod, dflt) ==
    IF Len(mod) >= 2 /\ mod[2] # <<>> THEN ParseFloat(mod[2]) ELSE dflt

\* One modifier applied to a progress: the switch in parseRule.
ApplyModifier(progress, mod) ==
    CASE mod[1] = S_reverse -> NumSub(One, progress)
      [] mod[1] = S_shift -> NumAdd(progress, NumDivHundred(ModArg(mod, Zero)))
      [] mod[1] = S_scale -> NumMul(progress, ModArg(mod, One))
      [] OTHER -> progress

\* The loop over the modifiers, modIdx = i .. modifiers.length - 1.
RECURSIVE ApplyModifiersMutant(_, _, _)
ApplyModifiersMutant(progress, modifiers, i) ==
    IF i > Len(modifiers) THEN progress
    ELSE ApplyModifier(ApplyModifiersMutant(progress, modifiers, i + 1), modifiers[i])

RECURSIVE ApplyModifiers(_, _, _)
ApplyModifiers(progress, modifiers, i) ==
    IF i > Len(modifiers) THEN progress
    ELSE ApplyModifiers(ApplyModifier(progress, modifiers[i]), modifiers, i + 1)

\* kf.style[propName]
StyleValue(style, propName) ==
    style[CHOOSE k \in 1..Len(style) : style[k][1] = propName][2]

\* The loop over the style entries of one keyframe for one progress.
RECURSIVE AddStyles(_, _, _, _)
AddStyles(anim, style, progress, styleIdx) ==
    IF styleIdx > Len(style) THEN anim
    ELSE LET propName == style[styleIdx][1]
             known == propName \in DOMAIN anim.namedProps
             p == IF known THEN anim.namedProps[propName] ELSE NewDnaProp(propName)
             q == DnaPropAdd(p, progress, StyleValue(style, propName))
         IN  AddStyles([props |-> IF known THEN anim.props ELSE Append(anim.props, propName),
                        rules |-> anim.rules,
                        namedProps |-> [n \in DOMAIN anim.namedProps \cup {propName} |->
                                           IF n = propName THEN q ELSE anim.namedProps[n]]],
                       style, progress, styleIdx + 1)

\* The loop over the progress list of one keyframe.
RECURSIVE AddProgresses(_, _, _, _, _)
AddProgresses(anim, kf, progressList, modifiers, progressIdx) ==
    IF progressIdx > Len(progressList) THEN anim
    ELSE LET progress == NumDivHundred(ParseFloat(progressList[progressIdx]))
         IN  AddProgresses(
                 AddStyles(anim, kf.style, ApplyModifiers(progress, modifiers, 1), 1),
                 kf, progressList, modifiers, progressIdx + 1)

\* The loop over the keyframes of the rule.
RECURSIVE AddKeyframes(_, _, _, _)
AddKeyframes(anim, rule, modifiers, ruleIdx) ==
    IF ruleIdx > Len(rule.cssRules) THEN anim
    ELSE LET kf == rule.cssRules[ruleIdx]
             progressList == SplitChar(KeepKeyChars(kf.keyText), ",")
         IN  AddKeyframes(AddProgresses(anim, kf, progressList, modifiers, 1),
                          rule, modifiers, ruleIdx + 1)

ParseRule(anim, rule, modifiers) ==
    AddKeyframes([anim EXCEPT !.rules = Append(anim.rules, rule)], rule,
                 [m \in 1..Len(modifiers) |-> SplitModifier(modifiers[m])], 1)

\* The scan of one sheet's cssRules for name, j = from .. length - 1; every
\* @keyframes rule passed on the way is collected in the cache.
RECURSIVE ScanRules(_, _, _, _)
ScanRules(cache, cssRules, name, j) ==
    IF j > Len(cssRules) THEN [rule |-> NoRule, cache |-> cache]
    ELSE LET sheetRule == cssRules[j]
         IN  IF sheetRule.type = KEYFRAMES_RULE
             THEN LET c2 == [n \in DOMAIN cache \cup {sheetRule.name} |->
                                IF n = sheetRule.name THEN sheetRule ELSE cache[n]]
                  IN  IF sheetRule.name = name THEN [rule |-> sheetRule, cache |-> c2]
                      ELSE ScanRules(c2, cssRules, name, j + 1)
             ELSE ScanRules(cache, cssRules, name, j + 1)

\* The scan of document.styleSheets, i = from .. length - 1; a sheet whose
\* cssRules cannot be read throws inside the try and is passed over.
RECURSIVE ScanSheetsMutant(_, _, _, _)
ScanSheetsMutant(cache, styleSheets, name, i) ==
    IF i > Len(styleSheets) \/ ~styleSheets[i].readable THEN [rule |-> NoRule, cache |-> cache]
    ELSE LET r == ScanRules(cache, styleSheets[i].cssRules, name, 1)
         IN  IF r.rule # NoRule THEN r
             ELSE ScanSheetsMutant(r.cache, styleSheets, name, i + 1)

RECURSIVE ScanSheets(_, _, _, _)
ScanSheets(cache, styleSheets, name, i) ==
    IF i > Len(styleSheets) THEN [rule |-> NoRule, cache |-> cache]
    ELSE IF ~styleSheets[i].readable THEN ScanSheets(cache, styleSheets, name, i + 1)
    ELSE LET r == ScanRules(cache, styleSheets[i].cssRules, name, 1)
         IN  IF r.rule # NoRule THEN r ELSE ScanSheets(r.cache, styleSheets, name, i + 1)

FindRule(cache, styleSheets, name) ==
    IF name \in DOMAIN cache THEN [rule |-> cache[name], cache |-> cache]
    ELSE ScanSheets(cache, styleSheets, name, 1)

EmptyAnim == [props |-> <<>>, rules |-> <<>>, namedProps |-> <<>>]

\* The loop over the names of the attribute, k = from .. names.length - 1. The
\* result is the finished DnaAnim, or the error thrown, and the cache as left.
RECURSIVE AnimNames(_, _, _, _, _)
AnimNames(anim, cache, styleSheets, names, k) ==
    IF k > Len(names) THEN [ok |-> TRUE, anim |-> anim, cache |-> cache]
    ELSE IF Contains(names[k], S_colon_debugger)
         THEN AnimNames(anim, cache, styleSheets, names, k + 1)
    ELSE LET parts == SplitChar(names[k], ":")
             name == parts[1]
             modifiers == Tail(parts)
             f == FindRule(cache, styleSheets, name)
         IN  IF f.rule = NoRule
             THEN [ok |-> FALSE,
                   message |-> S_CannotFindAnimation \o <<"\"">> \o name \o <<"\"">>,
                   cache |-> f.cache]
             ELSE AnimNames(ParseRule(anim, f.rule, modifiers), f.cache, styleSheets,
                            names, k + 1)

\* The names of the attribute: what the constructor splits it into.
AttrNames(parallaxNames) == SplitSpaces(Trim(Tighten(parallaxNames)))

\* new DnaAnim(parallaxNames)
DnaAnim(parallaxNames, cache, styleSheets) ==
    AnimNames(EmptyAnim, cache, styleSheets, AttrNames(parallaxNames), 1)

(***************************************************************************)
(* The page: its nodes, and DnaParallax, the object kept on an element.    *)
(* A world w is the program's mutable state: the module variables, the     *)
(* element.parallax objects, and the attributes, data and styles the       *)
(* plugin writes on the nodes. A page is what the plugin only reads.       *)
(***************************************************************************)
Elements == <<"e1", "e2">>      \* $('[parallax]'), in document order

Nodes == {"e1", "e2", "box"}    \* e1 lies in box, which has role="parallax-container"

Null == [container |-> "null"]

S_box == <<"#", "b", "o", "x">>
S_gone == <<"#", "g", "o", "n", "e">>
S_e1 == <<"#", "e", "1">>
S_off == <<"o", "f", "f">>
S_on == <<"o", "n">>
S_ready == <<"r", "e", "a", "d", "y">>
S_error == <<"e", "r", "r", "o", "r">>
S_0pct == <<"0", "%">>
S_100pct == <<"1", "0", "0", "%">>
S_CannotFindContainer == <<"C", "a", "n", "n", "o", "t", " ", "f", "i", "n", "d", " ", "a", "s", "s", "o", "c", "i", "a", "t", "e", "d", " ", "c", "o", "n", "t", "a", "i", "n", "e", "r", " ">>
S_scroll_position == <<"s", "c", "r", "o", "l", "l", "-", "p", "o", "s", "i", "t", "i", "o", "n">>

\* $(containerSelector)
Select(selector) ==
    IF selector = S_box THEN {"box"} ELSE IF selector = S_e1 THEN {"e1"} ELSE {}

\* $element.closest('[role~="parallax-container"]')
Closest(element) == IF element = "e1" THEN {"box"} ELSE {}

\* animateProps.join(', ')
RECURSIVE Join(_)
Join(list) ==
    IF list = <<>> THEN <<>>
    ELSE IF Len(list) = 1 THEN list[1]
    ELSE list[1] \o <<",", " ">> \o Join(Tail(list))

\* new DnaParallax(element): the object, or the error thrown; the cache as left.
DnaParallax(element, page, cache) ==
    LET containerSelector == Trim(page.conf[element].container)
        found == IF containerSelector # <<>> THEN Select(containerSelector)
                 ELSE Closest(element)
    IN  IF containerSelector # <<>> /\ found = {}
        THEN [ok |-> FALSE,
              message |-> S_CannotFindContainer \o <<"\"">> \o containerSelector \o <<"\"">>,
              cache |-> cache]
        ELSE LET Parsed(a) ==
                     IF ~a.ok THEN a
                     ELSE [ok |-> TRUE,
                           object |-> [container |-> IF found = {} THEN element
                                                     ELSE CHOOSE n \in found : TRUE,
                                       anim |-> a.anim,
                                       progress |-> undefined,
                                       realProgress |-> undefined],
                           willChange |-> Join(Append(a.anim.props, S_scroll_position)),
                           cache |-> a.cache]
             IN  Parsed(DnaAnim(page.conf[element].parallax, cache, page.sheets))

\* a / b for integers a and b, as JavaScript divides.
JsDivide(a, b) ==
    IF b # 0 THEN Rat(a, b)
    ELSE IF a = 0 THEN NaN ELSE IF a > 0 THEN PosInf ELSE NegInf

Million == 1000000

\* The first k digits, as a number, of the fraction r / d (0 <= r < d), and what is left.
RECURSIVE LongDivide(_, _, _, _)
LongDivide(r, d, k, acc) ==
    IF k = 0 THEN <<acc, r>>
    ELSE LongDivide((10 * r) % d, d, k - 1, 10 * acc + (10 * r) \div d)

\* Math.round(x * 1000000) / 1000000
Round6Mutant(x) ==
    IF ~IsRat(x) THEN x
    ELSE LET q == x[1] \div x[2]
         IN  Rat(q * Million + LongDivide(x[1] - q * x[2], x[2], 6, 0)[1], Million)

Round6(x) ==
    IF ~IsRat(x) THEN x
    ELSE LET q == x[1] \div x[2]
             l == LongDivide(x[1] - q * x[2], x[2], 6, 0)
         IN  Rat(q * Million + l[1] + (IF 2 * l[2] >= x[2] THEN 1 ELSE 0), Million)

\* if (progress > 1) progress = 1; else if (progress < 0) progress = 0;
Clamp(x) == IF NumGt(x, One) THEN One ELSE IF NumLt(x, Zero) THEN Zero ELSE x

\* Math.floor(x * k) * m, as the text JavaScript makes of it.
FloorTimes(x, k, m) ==
    IF ~IsRat(x) THEN NumToStr(NaN) ELSE NumToStr(<<((x[1] * k) \div x[2]) * m, 1>>)

NoAttrs == [status |-> <<>>, error |-> <<>>, progress |-> <<>>, step |-> <<>>,
            willChange |-> <<>>]

\* this.realProgress < 0 || this.realProgress > 1 ? 'off' : 'on'
StatusMutant(realProgress) ==
    IF NumGt(realProgress, Zero) /\ NumLt(realProgress, One) THEN S_on ELSE S_off

Status(realProgress) ==
    IF NumLt(realProgress, Zero) \/ NumGt(realProgress, One) THEN S_off ELSE S_on

\* calculateProgress(): the world after it.
CalculateProgress(w, element, page) ==
    LET this == w.parallax[element]
        cached == w.data[this.container]
        offset == IF cached # <<>> THEN cached ELSE <<page.geom[this.container].top>>
        containerTop == offset[1]
        containerHeight == page.geom[this.container].height
        progress0 == containerTop - w.viewHeight
        progress100 == containerTop + containerHeight
        Record(realProgress, progress) ==
            LET set(old) ==
                    [old EXCEPT
                        !.progress = FloorTimes(progress, 100, 1) \o <<"%">>,
                        !.step = <<"p", "e", "n", "t", "a", "-">> \o FloorTimes(progress, 20, 5)
                                 \o <<" ", "d", "e", "c", "a", "-">>
                                 \o FloorTimes(progress, 10, 10),
                        !.status = Status(realProgress)]
            IN  [w EXCEPT
                    !.data[this.container] = offset,
                    !.parallax[element].realProgress = realProgress,
                    !.parallax[element].progress = progress,
                    !.attrs = [n \in Nodes |->
                                  IF n \in {element, this.container} THEN set(w.attrs[n])
                                  ELSE w.attrs[n]]]
        Rounded(realProgress) == Record(realProgress, Clamp(realProgress))
    IN  Rounded(Round6(JsDivide(w.viewTop - progress0, progress100 - progress0)))

\* The progress that step() hands to prop.get().
StepProgressMutant(this) == this.progress

StepProgress(this) == this.realProgress

\* A step whose get() fills the placeholders in the entry's own template.
StepMutant(w0, element, page) ==
    LET Style(this) ==
            [name \in {this.anim.props[i] : i \in 1..Len(this.anim.props)} |->
                DnaPropGet(this.anim.namedProps[name], StepProgress(this))]
        Filled(this, style) ==
            [name \in DOMAIN this.anim.namedProps |->
                [this.anim.namedProps[name] EXCEPT !.list[1].template = style[name]]]
        Css(w) == [w EXCEPT !.style[element] = Style(w.parallax[element]),
                            !.parallax[element].anim.namedProps =
                                Filled(w.parallax[element], Style(w.parallax[element]))]
    IN  Css(CalculateProgress(w0, element, page))

\* step(): the world after it; style[element] is the mapping handed to $element.css().
Step(w0, element, page) ==
    LET Style(this) ==
            [name \in {this.anim.props[i] : i \in 1..Len(this.anim.props)} |->
                DnaPropGet(this.anim.namedProps[name], StepProgress(this))]
        Css(w) == [w EXCEPT !.style[element] = Style(w.parallax[element])]
    IN  Css(CalculateProgress(w0, element, page))

\* The first loop of $.fn.parallax: remove the position cache.
RECURSIVE RemoveCaches(_, _, _)
RemoveCaches(w, set, i) ==
    IF i > Len(set) THEN w
    ELSE IF w.parallax[set[i]] # Null
         THEN RemoveCaches([w EXCEPT !.data[w.parallax[set[i]].container] = <<>>], set, i + 1)
         ELSE RemoveCaches(w, set, i + 1)

\* The body of the second loop of $.fn.parallax for one element.
EachElementMutant(w, element, param, page) ==
    LET Finish(w1, caught) == IF caught THEN w1 ELSE Step(w1, element, page)
        Try(r) ==
            Finish(IF ~r.ok
                   THEN [w EXCEPT !.allRules = r.cache,
                                  !.attrs[element].status = S_error,
                                  !.attrs[element].error = r.message]
                   ELSE [w EXCEPT !.allRules = r.cache,
                                  !.parallax[element] = r.object,
                                  !.attrs[element].willChange = r.willChange,
                                  !.attrs[element].status = S_ready],
                   ~r.ok)
    IN  IF w.parallax[element] = Null /\ w.attrs[element].status = S_error /\ param # "init"
        THEN w
        ELSE IF w.parallax[element] = Null \/ param = "init"
        THEN Try(DnaParallax(element, page, w.allRules))
        ELSE Finish(w, FALSE)

EachElement(w, element, param, page) ==
    LET Finish(w1, caught) == IF caught THEN w1 ELSE Step(w1, element, page)
        Try(r) ==
            Finish(IF ~r.ok
                   THEN [w EXCEPT !.allRules = r.cache,
                                  !.attrs[element].status = S_error,
                                  !.attrs[element].error = r.message]
                   ELSE [w EXCEPT !.allRules = r.cache,
                                  !.parallax[element] = r.object,
                                  !.attrs[element].willChange = r.willChange,
                                  !.attrs[element].status = S_ready],
                   ~r.ok)
    IN  IF w.parallax[element] = Null \/ param = "init"
        THEN Try(DnaParallax(element, page, w.allRules))
        ELSE Finish(w, FALSE)

\* A loop that its first construction error ends, the error being recorded on
\* every element left.
RECURSIVE EachMutant(_, _, _, _, _)
EachMutant(w, set, param, page, i) ==
    IF i > Len(set) THEN w
    ELSE LET w2 == EachElement(w, set[i], param, page)
         IN  IF w2.attrs[set[i]].status = S_error
             THEN [w2 EXCEPT !.attrs = [n \in Nodes |->
                                 IF \E k \in i..Len(set) : set[k] = n
                                 THEN [w2.attrs[n] EXCEPT !.status = S_error,
                                                          !.error = w2.attrs[set[i]].error]
                                 ELSE w2.attrs[n]]]
             ELSE EachMutant(w2, set, param, page, i + 1)

\* return this.each(...): the try is inside the loop's body, so a construction
\* error ends the turn of its element only.
RECURSIVE Each(_, _, _, _, _)
Each(w, set, param, page, i) ==
    IF i > Len(set) THEN w
    ELSE Each(EachElement(w, set[i], param, page), set, param, page, i + 1)

\* $(set).parallax(param)
Parallax(w, set, param, page) == Each(RemoveCaches(w, set, 1), set, param, page, 1)

(***************************************************************************)
(* The scheduler: requestFrame, animateFrame and the event hooks.          *)
(***************************************************************************)
\* $(list).not('[parallax-status="off"]')
RECURSIVE NotOff(_, _, _)
NotOff(w, list, i) ==
    IF i > Len(list) THEN <<>>
    ELSE (IF w.attrs[list[i]].status # S_off THEN <<list[i]>> ELSE <<>>)
         \o NotOff(w, list, i + 1)

\* $all.not($onscreen).not("[parallax-progress='...']")
RECURSIVE Offscreen(_, _, _, _, _)
Offscreen(w, list, onscreen, edge, i) ==
    IF i > Len(list) THEN <<>>
    ELSE (IF /\ \A k \in 1..Len(onscreen) : onscreen[k] # list[i]
             /\ w.attrs[list[i]].progress # edge
          THEN <<list[i]>> ELSE <<>>)
         \o Offscreen(w, list, onscreen, edge, i + 1)

\* The two .parallax() calls of animateFrame: the elements that were not off,
\* then those of the others whose progress is not at the edge they left by.
RECURSIVE Sweep(_, _, _, _)
Sweep(w, onscreen, nth, page) ==
    IF nth > 2 THEN w
    ELSE LET edge == IF w.viewTop - w.viewTopLast > 0 THEN S_100pct ELSE S_0pct
             set == IF nth = 1 THEN onscreen
                    ELSE Offscreen(w, Elements, onscreen, edge, 1)
         IN  Sweep(Parallax(w, set, "", page), onscreen, nth + 1, page)

\* animateFrame(): what it returns and the world after it.
AnimateFrame(w0, page) ==
    LET viewTopCurr == page.scrollTop
        all == Elements
    IN  IF /\ viewTopCurr = w0.viewTopLast
           /\ \A k \in 1..Len(all) : w0.attrs[all[k]].status # <<>>
        THEN [ret |-> FALSE, w |-> w0]
        ELSE LET w1 == [w0 EXCEPT !.viewTopLast = w0.viewTop, !.viewTop = viewTopCurr]
             IN  [ret |-> TRUE, w |-> Sweep(w1, NotOff(w1, all, 1), 1, page)]

\* while (scrolling && animateFrame());
RECURSIVE AnimateLoop(_, _)
AnimateLoop(w, page) ==
    IF w.scrolling = "false" THEN w
    ELSE LET Again(r) == IF r.ret THEN AnimateLoop(r.w, page) ELSE r.w
         IN  Again(AnimateFrame(w, page))

\* A requestFrame that an element's construction error leaves before lock = 0.
RequestFrameMutant(w, page) ==
    IF w.lock # 0 THEN [w EXCEPT !.lock = w.lock + 1]
    ELSE LET Left(w1) ==
                 IF \E e \in DOMAIN w1.parallax : w1.attrs[e].status = S_error THEN w1
                 ELSE [w1 EXCEPT !.lock = 0]
         IN  Left(AnimateLoop([w EXCEPT !.lock = 1], page))

\* requestFrame()
RequestFrame(w, page) ==
    IF w.lock # 0 THEN [w EXCEPT !.lock = w.lock + 1]
    ELSE [AnimateLoop([w EXCEPT !.lock = 1], page) EXCEPT !.lock = 0]

\* scrollingOff()
ScrollingOff(w) ==
    [w EXCEPT !.scrolling = "false",
              !.willChange = [e \in DOMAIN w.willChange |-> <<>>]]

\* scrollingOn()
ScrollingOn(w) ==
    [w EXCEPT !.scrolling = "true",
              !.willChange = [e \in DOMAIN w.willChange |->
                                 IF w.attrs[e].willChange # <<>> /\ w.attrs[e].status = S_on
                                 THEN w.attrs[e].willChange ELSE w.willChange[e]]]

\* The handler of wheel, scroll and resize: scrolling ends as the new timer's id.
OnEvent(w, page) ==
    [RequestFrame(ScrollingOn(w), page) EXCEPT !.scrolling = "timer"]

(***************************************************************************)
(* The first variant of the plugin (src/unnamed/part_000 lines 18-372): a  *)
(* scroll hook that defers the pass to an animation frame. Its DnaProp.add *)
(* and its search of the style sheets are those of the later variant.      *)
(***************************************************************************)
MaxLock == 3            \* highest value of lock reached by scroll events before a frame

\* The loop of get() over the numbers of before: a number after lacks is undefined.
RECURSIVE FirstInterpolate(_, _, _, _, _)
FirstInterpolate(template, before, after, ratio, i) ==
    IF i >= Len(before.values) THEN template
    ELSE FirstInterpolate(
             ReplaceFirst(template, "@",
                 NumToStr(NumAdd(before.values[i + 1],
                                 NumMul(NumSub(ValueAt(after.values, i), before.values[i + 1]),
                                        ratio)))),
             before, after, ratio, i + 1)

\* get(progress) of the first variant: no progress is out of range.
FirstGet(p, progress) ==
    LET c == FindClosest(p.list, progress, 1, 0)
    IN  IF c.hit # 0 THEN p.list[c.hit].styleText
        ELSE IF c.before = 0
             THEN (IF c.after = 0 THEN TypeError ELSE p.list[c.after].styleText)
        ELSE IF c.after = 0 THEN p.list[c.before].styleText
        ELSE FirstInterpolate(p.list[c.before].template, p.list[c.before], p.list[c.after],
                              RDiv(RSub(progress, p.list[c.before].progress),
                                   RSub(p.list[c.after].progress, p.list[c.before].progress)),
                              0)

\* parseRule(rule) of the first variant: one key per keyframe, parseFloat(kf.keyText) / 100.
RECURSIVE FirstParseRule(_, _, _)
FirstParseRule(anim, rule, i) ==
    IF i > Len(rule.cssRules) THEN anim
    ELSE FirstParseRule(AddStyles(anim, rule.cssRules[i].style,
                                  NumDivHundred(ParseFloat(rule.cssRules[i].keyText)), 1),
                        rule, i + 1)

\* new DnaAnim(names) of the first variant: every token is a name.
RECURSIVE FirstDnaAnim(_, _, _, _, _)
FirstDnaAnim(anim, cache, styleSheets, names, k) ==
    IF k > Len(names) THEN [ok |-> TRUE, anim |-> anim, cache |-> cache]
    ELSE LET Found(f) ==
                 IF f.rule = NoRule
                 THEN [ok |-> FALSE,
                       message |-> S_CannotFindAnimation \o <<"\"">> \o names[k] \o <<"\"">>,
                       cache |-> f.cache]
                 ELSE FirstDnaAnim(
                          FirstParseRule([anim EXCEPT !.rules = Append(anim.rules, f.rule)],
                                         f.rule, 1),
                          f.cache, styleSheets, names, k + 1)
         IN  Found(FindRule(cache, styleSheets, names[k]))

\* new DnaParallax(element) of the first variant.
FirstDnaParallax(element, page, cache) ==
    LET Parsed(a) ==
            IF ~a.ok THEN a
            ELSE [ok |-> TRUE,
                  object |-> [container |-> IF Closest(element) = {} THEN element
                                            ELSE CHOOSE n \in Closest(element) : TRUE,
                              anim |-> a.anim,
                              progress |-> undefined],
                  cache |-> a.cache]
    IN  Parsed(FirstDnaAnim(EmptyAnim, cache, page.sheets,
                            SplitSpaces(Trim(page.conf[element].parallax)), 1))

\* step() of the first variant: calculateProgress() from the live window and
\* layout, then every property's get(this.progress) handed to $element.css().
FirstStep(w, element, page) ==
    LET c == w.parallax[element].container
        Css(this) ==
            [w EXCEPT
                !.parallax[element] = this,
                !.attrs[element].progress =
                    NumToStr(NumMul(this.progress, Hundred)) \o <<"%">>,
                !.style[element] =
                    [name \in {this.anim.props[i] : i \in 1..Len(this.anim.props)} |->
                        FirstGet(this.anim.namedProps[name], this.progress)]]
        Progress(progress) == Css([w.parallax[element] EXCEPT !.progress = progress])
    IN  Progress(Clamp(Round6(JsDivide(page.scrollTop - (page.geom[c].top - page.winHeight),
                                       page.geom[c].height + page.winHeight))))

\* $(set).parallax(param) of the first variant, from element i on.
RECURSIVE FirstParallax(_, _, _, _, _)
FirstParallax(w, set, param, page, i) ==
    IF i > Len(set) THEN w
    ELSE LET Try(r) ==
                 IF ~r.ok
                 THEN [w EXCEPT !.allRules = r.cache, !.attrs[set[i]].error = r.message]
                 ELSE FirstStep([w EXCEPT !.allRules = r.cache,
                                          !.parallax[set[i]] = r.object], set[i], page)
             Done(w1) == FirstParallax(w1, set, param, page, i + 1)
         IN  Done(IF w.parallax[set[i]] = Null \/ param = "init"
                  THEN Try(FirstDnaParallax(set[i], page, w.allRules))
                  ELSE FirstStep(w, set[i], page))

\* The scroll hook: if (lock++) return; window.requestAnimationFrame(...)
FirstHookMutant(w) == [w EXCEPT !.lock = w.lock + 1, !.frames = w.frames + 1]

\* A hook that lets a second event through: if (lock++ > 1) return;
FirstHookTwiceMutant(w) ==
    IF w.lock > 1 THEN [w EXCEPT !.lock = w.lock + 1]
    ELSE [w EXCEPT !.lock = w.lock + 1, !.frames = w.frames + 1]

FirstHook(w) ==
    IF w.lock # 0 THEN [w EXCEPT !.lock = w.lock + 1]
    ELSE [w EXCEPT !.lock = 1, !.frames = w.frames + 1]

\* The callback handed to requestAnimationFrame: the pass, then lock = 0.
FirstCallback(w, page) ==
    [FirstParallax(w, Elements, "", page, 1) EXCEPT !.lock = 0]

(***************************************************************************)
(* The frame-polling variant (src/unnamed/part_000 lines 911-1285):        *)
(* requestFrame runs animateFrame and queues itself for the next animation *)
(* frame. Its DnaParallax, DnaAnim and DnaProp are the first variant's.    *)
(***************************************************************************)
S_error_colon == <<"e", "r", "r", "o", "r", ":", " ">>

\* (Math.round(progress * 10000) / 100) + "%"
PercentText(progress) ==
    (IF ~IsRat(progress) THEN NumToStr(NaN)
     ELSE NumToStr(Rat((2 * progress[1] * 10000 + progress[2]) \div (2 * progress[2]), 100)))
    \o <<"%">>

\* step() of the polling variant: calculateProgress() from the module's viewTop
\* and viewHeight and the offset cached on the container, the progress text
\* written on the element and the container, then every property's
\* get(this.progress) handed to $element.css().
PollStep(w, element, page) ==
    LET c == w.parallax[element].container
        offset == IF w.data[c] # <<>> THEN w.data[c] ELSE <<page.geom[c].top>>
        Css(this) ==
            [w EXCEPT
                !.data[c] = offset,
                !.parallax[element] = this,
                !.attrs = [n \in Nodes |->
                              IF n \in {element, c}
                              THEN [w.attrs[n] EXCEPT !.progress = PercentText(this.progress)]
                              ELSE w.attrs[n]],
                !.style[element] =
                    [name \in {this.anim.props[i] : i \in 1..Len(this.anim.props)} |->
                        FirstGet(this.anim.namedProps[name], this.progress)]]
        Progress(progress) == Css([w.parallax[element] EXCEPT !.progress = progress])
    IN  Progress(Clamp(Round6(JsDivide(w.viewTop - (offset[1] - w.viewHeight),
                                       page.geom[c].height + w.viewHeight))))

\* The second loop of $.fn.parallax of the polling variant, from element i on.
RECURSIVE PollEach(_, _, _, _, _)
PollEach(w, set, param, page, i) ==
    IF i > Len(set) THEN w
    ELSE LET Try(r) ==
                 IF ~r.ok
                 THEN [w EXCEPT !.allRules = r.cache,
                                !.attrs[set[i]].status = S_error_colon \o r.message]
                 ELSE PollStep([w EXCEPT !.allRules = r.cache,
                                         !.parallax[set[i]] = r.object,
                                         !.attrs[set[i]].status = S_ready], set[i], page)
             Done(w1) == PollEach(w1, set, param, page, i + 1)
         IN  Done(IF w.parallax[set[i]] = Null \/ param = "init"
                  THEN Try(FirstDnaParallax(set[i], page, w.allRules))
                  ELSE PollStep(w, set[i], page))

\* $all.not('[parallax-progress="0%"], [parallax-progress="100%"]')
PollOnscreen(w, list) ==
    SelectSeq(list, LAMBDA e : w.attrs[e].progress \notin {S_0pct, S_100pct})

\* $all.not($onscreen).not("[parallax-progress='...']")
PollOffscreen(w, list, onscreen, edge) ==
    SelectSeq(list, LAMBDA e : /\ \A k \in 1..Len(onscreen) : onscreen[k] # e
                               /\ w.attrs[e].progress # edge)

\* The two .parallax() calls of animateFrame.
RECURSIVE PollSweep(_, _, _, _)
PollSweep(w, onscreen, nth, page) ==
    IF nth > 2 THEN w
    ELSE LET edge == IF w.viewTop - w.viewTopLast > 0 THEN S_100pct ELSE S_0pct
             set == IF nth = 1 THEN onscreen
                    ELSE PollOffscreen(w, Elements, onscreen, edge)
         IN  PollSweep(PollEach(RemoveCaches(w, set, 1), set, "", page, 1),
                       onscreen, nth + 1, page)

\* animateFrame() of the polling variant.
PollAnimateFrame(w0, page) ==
    IF page.scrollTop = w0.viewTopLast THEN w0
    ELSE LET Swept(w1) == PollSweep(w1, PollOnscreen(w1, Elements), 1, page)
         IN  Swept([w0 EXCEPT !.viewTopLast = w0.viewTop, !.viewTop = page.scrollTop])

\* requestFrame() of the polling variant: the pass, lock = 0, and itself
\* queued for the next frame.
PollRequestFrame(w, page) ==
    IF w.lock # 0 THEN [w EXCEPT !.lock = w.lock + 1]
    ELSE [PollAnimateFrame([w EXCEPT !.lock = 1], page) EXCEPT
             !.lock = 0, !.frames = w.frames + 1]

(***************************************************************************)
(* The document: its style sheets with their @keyframes rules.             *)
(***************************************************************************)
Declaration(propName, value) == <<propName, value>>

KeyframeRule(keyText, style) == [keyText |-> keyText, style |-> style]

KeyframesRule(name, cssRules) == [type |-> KEYFRAMES_RULE, name |-> name, cssRules |-> cssRules]

StyleRule == [type |-> STYLE_RULE, name |-> <<>>, cssRules |-> <<>>]

S_opacity == <<"o", "p", "a", "c", "i", "t", "y">>
S_color == <<"c", "o", "l", "o", "r">>
S_top == <<"t", "o", "p">>
S_left == <<"l", "e", "f", "t">>
S_width == <<"w", "i", "d", "t", "h">>
S_fade == <<"f", "a", "d", "e">>
S_tint == <<"t", "i", "n", "t">>
S_glow == <<"g", "l", "o", "w">>
S_pts == <<"p", "t", "s">>
S_late == <<"l", "a", "t", "e">>
S_nope == <<"n", "o", "p", "e">>

\* @keyframes fade { 0% {opacity: 0} 100% {opacity: 1} }
R_fade ==
    KeyframesRule(S_fade,
        <<KeyframeRule(<<"0", "%">>, <<Declaration(S_opacity, <<"0">>)>>),
          KeyframeRule(<<"1", "0", "0", "%">>, <<Declaration(S_opacity, <<"1">>)>>)>>)

\* @keyframes pts { 20% {top: 2px} 25% {left: 3px} 30% {width: 4px} }
R_pts ==
    KeyframesRule(S_pts,
        <<KeyframeRule(<<"2", "0", "%">>, <<Declaration(S_top, <<"2", "p", "x">>)>>),
          KeyframeRule(<<"2", "5", "%">>, <<Declaration(S_left, <<"3", "p", "x">>)>>),
          KeyframeRule(<<"3", "0", "%">>, <<Declaration(S_width, <<"4", "p", "x">>)>>)>>)

\* @keyframes tint { 50% {color: rgb(8,0,0)} }
R_tint ==
    KeyframesRule(S_tint,
        <<KeyframeRule(<<"5", "0", "%">>, <<Declaration(S_color, <<"r", "g", "b", "(", "8", ",", "0", ",", "0", ")">>)>>)>>)

\* @keyframes glow { 0%, 100% {opacity: 1} 50% {color: rgb(0,0,8); opacity: 0.5} }
R_glow ==
    KeyframesRule(S_glow,
        <<KeyframeRule(<<"0", "%", ",", " ", "1", "0", "0", "%">>, <<Declaration(S_opacity, <<"1">>)>>),
          KeyframeRule(<<"5", "0", "%">>, <<Declaration(S_color, <<"r", "g", "b", "(", "0", ",", "0", ",", "8", ")">>),
                                 Declaration(S_opacity, <<"0", ".", "5">>)>>)>>)

\* @keyframes late { 0% {top: 0px} 100% {top: 9px} }, in a sheet loaded later
R_late ==
    KeyframesRule(S_late,
        <<KeyframeRule(<<"0", "%">>, <<Declaration(S_top, <<"0", "p", "x">>)>>),
          KeyframeRule(<<"1", "0", "0", "%">>, <<Declaration(S_top, <<"9", "p", "x">>)>>)>>)

\* @keyframes fade { 0% {opacity: 1} 100% {opacity: 0.2} }, a second definition of fade
R_fade2 ==
    KeyframesRule(S_fade,
        <<KeyframeRule(<<"0", "%">>, <<Declaration(S_opacity, <<"1">>)>>),
          KeyframeRule(<<"1", "0", "0", "%">>, <<Declaration(S_opacity, <<"0", ".", "2">>)>>)>>)

Sheet(readable, cssRules) == [readable |-> readable, cssRules |-> cssRules]

\* The page's two sheets and, between them, a third-party sheet whose cssRules
\* cannot be read.
InitialSheets ==
    <<Sheet(TRUE, <<StyleRule, R_fade, R_pts>>),
      Sheet(FALSE, <<R_late>>),
      Sheet(TRUE, <<R_tint, R_glow>>)>>

\* Sheets that may be loaded later.
LaterSheets == {Sheet(TRUE, <<R_fade2, R_late>>)}

MaxSheets == 4          \* most style sheets in the document

(***************************************************************************)
(* The state the engine specifications share.                              *)
(***************************************************************************)
ElementSet == {Elements[i] : i \in 1..Len(Elements)}

\* What the plugin reads of the page.
Page ==
    [geom |-> geom, conf |-> conf, sheets |-> sheets, scrollTop |-> scrollTop,
     winHeight |-> winHeight]

\* What the plugin keeps and writes.
World ==
    [parallax |-> parallax, attrs |-> attrs, data |-> data, style |-> css,
     willChange |-> willChange, allRules |-> allRules, viewTop |-> viewTop,
     viewTopLast |-> viewTopLast, viewHeight |-> viewHeight, scrolling |-> scrolling,
     lock |-> lock, frames |-> frames]

\* The next state holds the world w.
Commit(w) ==
    /\ parallax' = w.parallax
    /\ attrs' = w.attrs
    /\ data' = w.data
    /\ css' = w.style
    /\ willChange' = w.willChange
    /\ allRules' = w.allRules
    /\ viewTop' = w.viewTop
    /\ viewTopLast' = w.viewTopLast
    /\ viewHeight' = w.viewHeight
    /\ scrolling' = w.scrolling
    /\ lock' = w.lock
    /\ frames' = w.frames

\* The module as its script leaves it: var lock = 0, viewTop = $window.scrollTop(), ...
Loaded ==
    /\ parallax = [e \in ElementSet |-> Null]
    /\ attrs = [n \in Nodes |-> NoAttrs]
    /\ data = [n \in Nodes |-> <<>>]
    /\ css = [e \in ElementSet |-> <<>>]
    /\ willChange = [e \in ElementSet |-> <<>>]
    /\ lock = 0
    /\ viewTop = scrollTop
    /\ viewHeight = winHeight
    /\ viewTopLast = scrollTop
    /\ scrolling = "true"
    /\ timerPending = FALSE
    /\ frames = 0

Conf(parallaxNames, containerSelector) ==
    [parallax |-> parallaxNames, container |-> containerSelector]

Box(top, height) == [top |-> top, height |-> height]

\* A page the specifications of DnaProp and DnaAnim leave alone.
EmptyPage ==
    /\ geom = [n \in Nodes |-> Box(0, 0)]
    /\ conf = [e \in ElementSet |-> Conf(<<>>, <<>>)]
    /\ scrollTop = 0
    /\ winHeight = 0

\* $(set).parallax(param), called by the page's own script.
Call(set, param) ==
    /\ Commit(Parallax(World, set, param, Page))
    /\ call' = [op |-> "parallax", set |-> set, param |-> param,
                tried |-> {set[i] : i \in {k \in 1..Len(set) :
                                              parallax[set[k]] = Null \/ param = "init"}}]
    /\ UNCHANGED <<pageVars, sheets, timerPending, prop, animVars>>

\* The elements that had no engine before this step and have one after it.
Constructed == {e \in ElementSet : parallax[e] = Null /\ parallax'[e] # Null}

\* $(requestFrame) and the load event.
OnLoad ==
    /\ Commit(RequestFrame(World, Page))
    /\ call' = [op |-> "load", constructed |-> Constructed]
    /\ UNCHANGED <<pageVars, sheets, timerPending, prop, animVars>>

\* A wheel, scroll or resize event arrives, the window by now scrolled to top
\* and height high: the one handler of the three runs, after the handler of
\* resize alone, which reads the height.
OnWindowEvent(type, top, height) ==
    /\ scrollTop' = top
    /\ winHeight' = height
    /\ Commit(OnEvent([World EXCEPT !.viewHeight = IF type = "resize" THEN height
                                                   ELSE viewHeight],
                      [Page EXCEPT !.scrollTop = top, !.winHeight = height]))
    /\ timerPending' = TRUE
    /\ call' = [op |-> type, constructed |-> Constructed]
    /\ UNCHANGED <<geom, conf, sheets, prop, animVars>>

\* The window is scrolled to top, by the user or by the page's script; the
\* scroll event this fires is dispatched later.
ScrollTo(top) ==
    /\ top # scrollTop
    /\ scrollTop' = top
    /\ call' = [op |-> "scrollTo"]
    /\ UNCHANGED <<geom, conf, winHeight, cssVars, engineVars, prop, animVars>>

\* The page's layout changes: the container box moves to top.
Relayout(top) ==
    /\ top # geom["box"].top
    /\ geom' = [geom EXCEPT !["box"].top = top]
    /\ call' = [op |-> "relayout"]
    /\ UNCHANGED <<conf, scrollTop, winHeight, cssVars, engineVars, prop, animVars>>

\* A timer set by the event handler fires; clearTimeout(scrolling) was handed
\* true, not the earlier timer's id, so earlier timers may remain.
OnTimeout(more) ==
    /\ timerPending
    /\ Commit(ScrollingOff(World))
    /\ timerPending' = more
    /\ call' = [op |-> "timeout"]
    /\ UNCHANGED <<pageVars, sheets, prop, animVars>>

\* The page's script rewrites the attributes of an element.
Edit(element, c) ==
    /\ conf[element] # c
    /\ conf' = [conf EXCEPT ![element] = c]
    /\ call' = [op |-> "edit"]
    /\ UNCHANGED <<geom, scrollTop, winHeight, cssVars, engineVars, prop, animVars>>

\* A further style sheet arrives, once.
LoadSheet(sheet) ==
    /\ Len(sheets) < MaxSheets
    /\ \A i \in 1..Len(sheets) : sheets[i] # sheet
    /\ sheets' = Append(sheets, sheet)
    /\ call' = [op |-> "sheet"]
    /\ UNCHANGED <<allRules, pageVars, engineVars, prop, animVars>>

(***************************************************************************)
(* SpecProp: one DnaProp driven by arbitrary add() and get() calls.        *)
(***************************************************************************)
PropNames == {<<"t", "o", "p">>, <<"c", "o", "l", "o", "r">>}

StyleTexts ==
    {<<"0">>, <<"1", "0">>, <<"4", "p", "x", " ", "8", "p", "x">>, <<"n", "o", "n", "e">>}

AddKeys == {Zero, Rat(1, 5), Rat(4, 5), One, Rat(3, 2)}

Queries == AddKeys \cup {Rat(-1, 2), Rat(1, 4), Rat(1, 2), Rat(5, 4)}

PropInit ==
    /\ prop \in {NewDnaProp(n) : n \in PropNames}
    /\ call = [op |-> "new"]
    /\ sheets = <<>>
    /\ allRules = <<>>
    /\ attrA = <<>>
    /\ built = [state |-> "none"]
    /\ EmptyPage
    /\ Loaded

PropAdd(progress, styleText) ==
    /\ \/ Len(prop.list) < MaxEntries
       \/ \E i \in 1..Len(prop.list) : prop.list[i].progress = progress
    /\ prop' = DnaPropAdd(prop, progress, styleText)
    /\ call' = [op |-> "add", progress |-> progress, styleText |-> styleText]
    /\ UNCHANGED <<cssVars, animVars, pageVars, engineVars>>

PropGet(progress) ==
    /\ prop.list # <<>>
    /\ call' = [op |-> "get", progress |-> progress, ret |-> DnaPropGet(prop, progress)]
    /\ UNCHANGED <<prop, cssVars, animVars, pageVars, engineVars>>

PropNext ==
    \/ \E progress \in AddKeys, styleText \in StyleTexts : PropAdd(progress, styleText)
    \/ \E progress \in Queries : PropGet(progress)

SpecProp == PropInit /\ [][PropNext]_vars

(***************************************************************************)
(* SpecValue: one DnaProp of at most two keyframes, one of them beyond     *)
(* 100%, over raw values of many shapes.                                   *)
(***************************************************************************)
RawTexts ==
    {<<"0">>, <<"n", "o", "n", "e">>, <<"4", "p", "x", " ", "8", "p", "x">>,
     <<"+", "5">>, <<"0", "5">>, <<"1", ".", "5", "0">>, <<"-", "1", ".", "5">>,
     <<"r", "g", "b", "(", "8", ",", "0", ",", "0", ")">>,
     <<"r", "g", "b", "a", "(", "0", ",", "0", ",", "8", ",", "0", ".", "5", ")">>,
     <<"a", "@", "b">>, <<"@", "5">>}

ValueKeys == {Rat(1, 2), Rat(3, 2)}

ValueQueries == {Rat(1, 4), Rat(1, 2), Rat(3, 4), One, Rat(5, 4), Rat(3, 2)}

ValueNext ==
    \/ \E progress \in ValueKeys, styleText \in RawTexts : PropAdd(progress, styleText)
    \/ \E progress \in ValueQueries : PropGet(progress)

SpecValue == PropInit /\ [][ValueNext]_vars

(***************************************************************************)
(* SpecAnim: new DnaAnim(attribute) over the document's style sheets.      *)
(***************************************************************************)
AnimNamesUsed == {S_fade, S_tint, S_glow, S_pts, S_nope}

ModifierTexts ==
    {<<>>, <<":", "r", "e", "v", "e", "r", "s", "e">>, <<":", "s", "h", "i", "f", "t", "(", "1", "0", ")">>, <<":", "s", "c", "a", "l", "e", "(", "2", ")">>, <<":", "r", "e", "v", "e", "r", "s", "e", ":", "s", "h", "i", "f", "t", "(", "1", "0", ")">>, <<":", "s", "h", "i", "f", "t", "(", "1", "0", ")", ":", "r", "e", "v", "e", "r", "s", "e">>}

AnimTokens == {n \o m : n \in AnimNamesUsed, m \in ModifierTexts}

FirstTokens == {n \o m : n \in AnimNamesUsed, m \in {<<>>, <<":", "r", "e", "v", "e", "r", "s", "e">>, <<":", "s", "c", "a", "l", "e", "(", "2", ")">>}}

AnimAttrs ==
    AnimTokens
    \cup {a \o <<" ">> \o b : a \in FirstTokens, b \in AnimTokens}
    \cup {<<" ", " ", "f", "a", "d", "e", " ", ":", " ", "r", "e", "v", "e", "r", "s", "e", " ", " ", " ", "t", "i", "n", "t", " ">>, <<"f", "a", "d", "e", ":", "d", "e", "b", "u", "g", "g", "e", "r", " ", "t", "i", "n", "t">>, <<"l", "a", "t", "e">>, <<"f", "a", "d", "e", ":", "b", "l", "u", "r", ":", "r", "e", "v", "e", "r", "s", "e">>,
          <<"t", "i", "n", "t", ":", "s", "h", "i", "f", "t", "(", "1", "0", "0", ")", " ", "p", "t", "s", " ", "g", "l", "o", "w", ":", "s", "h", "i", "f", "t", "(", "1", "0", "0", ")">>, <<"g", "l", "o", "w", ":", "s", "c", "a", "l", "e", "(", "0", ".", "5", ")", " ", "f", "a", "d", "e", ":", "s", "h", "i", "f", "t">>, <<>>}

NotBuilt == [state |-> "none"]

\* What a try { new DnaAnim(...) } catch (e) leaves: the object or the message.
Outcome(r) ==
    IF r.ok THEN [state |-> "ok", anim |-> r.anim]
    ELSE [state |-> "error", message |-> r.message]

AnimInit ==
    /\ attrA \in AnimAttrs
    /\ built = NotBuilt
    /\ sheets = InitialSheets
    /\ allRules = <<>>
    /\ prop = NewDnaProp(<<>>)
    /\ call = [op |-> "new"]
    /\ EmptyPage
    /\ Loaded

AnimConstruct ==
    LET r == DnaAnim(attrA, allRules, sheets)
    IN  /\ built' = Outcome(r)
        /\ allRules' = r.cache
        /\ call' = [op |-> "new"]
        /\ UNCHANGED <<attrA, sheets, prop, pageVars, engineVars>>

\* anim.namedProps[propName].get(progress), for progress the key of entry i.
AnimGet(propName, i) ==
    /\ built.state = "ok"
    /\ propName \in DOMAIN built.anim.namedProps
    /\ i \in 1..Len(built.anim.namedProps[propName].list)
    /\ LET p == built.anim.namedProps[propName]
       IN  call' = [op |-> "get", name |-> propName, progress |-> p.list[i].progress,
                    ret |-> DnaPropGet(p, p.list[i].progress)]
    /\ UNCHANGED <<attrA, built, cssVars, prop, pageVars, engineVars>>

AnimNext ==
    \/ AnimConstruct
    \/ \E propName \in {S_opacity, S_color, S_top, S_left, S_width}, i \in 1..MaxEntries :
           AnimGet(propName, i)
    \/ \E sheet \in LaterSheets : LoadSheet(sheet)

SpecAnim == AnimInit /\ [][AnimNext]_vars

(***************************************************************************)
(* SpecProgress: calculateProgress over the geometry of e1's container and *)
(* the viewport, called through $(...).parallax().                         *)
(***************************************************************************)
Tops == {0, 10, 1000}

Heights == {0, 1, 200}

ViewHeights == {0, 2, 800}

ViewTops == {0, 7, 8, 9, 10, 11, 12, 200, 400, 700, 1000, 1200, 1300}

ProgressInit ==
    /\ \E top \in Tops, height \in Heights :
           geom = [n \in Nodes |-> IF n = "box" THEN Box(top, height) ELSE Box(0, 0)]
    /\ conf = [e \in ElementSet |-> Conf(S_fade, <<>>)]
    /\ scrollTop \in ViewTops
    /\ winHeight \in ViewHeights
    /\ sheets = InitialSheets
    /\ allRules = <<>>
    /\ Loaded
    /\ prop = NewDnaProp(<<>>)
    /\ call = [op |-> "new"]
    /\ attrA = <<>>
    /\ built = NotBuilt

ProgressNext ==
    \E set \in {<<"e1">>, <<"e2">>, <<"e1", "e2">>}, param \in {"", "init"} : Call(set, param)

SpecProgress == ProgressInit /\ [][ProgressNext]_vars

(***************************************************************************)
(* Spec: the plugin on a page of two elements, driven by the window's      *)
(* events, the page's own calls and edits, and late style sheets.          *)
(***************************************************************************)
\* With the window 800 high, box is below the window at scroll offset 0 and inside
\* it at 450; e2 is inside it at 0 and above it at 450.
Geometry ==
    [n \in Nodes |-> CASE n = "box" -> Box(1000, 200)
                       [] n = "e1" -> Box(1050, 100)
                       [] n = "e2" -> Box(100, 200)]

ScrollTops == {0, 450}

WinHeights == {800}

\* The attributes an element may carry: e1's second animation may be missing; e2
\* names an animation of a late sheet, or a container that is not in the page.
Confs(element) ==
    IF element = "e1"
    THEN {Conf(S_fade, <<>>), Conf(S_fade \o <<" ">> \o S_nope, <<>>)}
    ELSE {Conf(S_late, <<>>), Conf(S_fade, S_gone)}

Init ==
    /\ geom = Geometry
    /\ conf \in {f \in [ElementSet -> UNION {Confs(e) : e \in ElementSet}] :
                   \A e \in ElementSet : f[e] \in Confs(e)}
    /\ scrollTop \in ScrollTops
    /\ winHeight \in WinHeights
    /\ sheets = InitialSheets
    /\ allRules = <<>>
    /\ Loaded
    /\ prop = NewDnaProp(<<>>)
    /\ call = [op |-> "new"]
    /\ attrA = <<>>
    /\ built = NotBuilt

Next ==
    \/ OnLoad
    \/ \E type \in {"wheel", "scroll", "resize"}, top \in ScrollTops, height \in WinHeights :
           OnWindowEvent(type, top, height)
    \/ \E more \in BOOLEAN : OnTimeout(more)
    \/ \E param \in {"", "init"} : Call(Elements, param)
    \/ \E element \in ElementSet : \E c \in Confs(element) : Edit(element, c)
    \/ \E sheet \in LaterSheets : LoadSheet(sheet)

Spec == Init /\ [][Next]_vars

(***************************************************************************)
(* SpecLayout: the plugin on a page whose two elements share the container *)
(* box, while the window scrolls and the layout changes between the        *)
(* handlers: an event is dispatched some time after the change it reports. *)
(***************************************************************************)
BoxTops == {1000, 1200}

LayoutHeights == {800, 600}

LayoutInit ==
    /\ geom = Geometry
    /\ conf = [e \in ElementSet |-> IF e = "e1" THEN Conf(S_fade, <<>>) ELSE Conf(S_fade, S_box)]
    /\ scrollTop \in ScrollTops
    /\ winHeight \in WinHeights
    /\ sheets = InitialSheets
    /\ allRules = <<>>
    /\ Loaded
    /\ prop = NewDnaProp(<<>>)
    /\ call = [op |-> "new"]
    /\ attrA = <<>>
    /\ built = NotBuilt

LayoutNext ==
    \/ \E top \in ScrollTops : ScrollTo(top)
    \/ \E top \in BoxTops : Relayout(top)
    \/ OnLoad
    \/ OnWindowEvent("scroll", scrollTop, winHeight)
    \/ \E height \in LayoutHeights : OnWindowEvent("resize", scrollTop, height)
    \/ \E more \in BOOLEAN : OnTimeout(more)
    \/ \E set \in {<<"e1">>, <<"e2">>, <<"e1", "e2">>}, param \in {"", "init"} : Call(set, param)

SpecLayout == LayoutInit /\ [][LayoutNext]_vars

(***************************************************************************)
(* SpecSkip: the plugin on a page of fixed layout in a window of fixed     *)
(* height, scrolled up and down past its elements. e1 is bound to box by   *)
(* role; e2 is bound to itself, or by parallax-container="#e1" to e1.      *)
(***************************************************************************)
\* With the window 800 high, box is inside the window from offset 200 to 1200,
\* e1 from 250 to 1150 and e2 up to 300; at 0 and 100 box is below the window.
SkipTops == {0, 100, 220, 450, 1180}

SkipInit ==
    /\ geom = Geometry
    /\ conf \in {[e \in ElementSet |-> Conf(S_fade, IF e = "e2" THEN selector ELSE <<>>)] :
                    selector \in {<<>>, S_e1}}
    /\ scrollTop = 0
    /\ winHeight = 800
    /\ sheets = InitialSheets
    /\ allRules = <<>>
    /\ Loaded
    /\ prop = NewDnaProp(<<>>)
    /\ call = [op |-> "new"]
    /\ attrA = <<>>
    /\ built = NotBuilt

SkipNext ==
    \/ \E top \in SkipTops : ScrollTo(top)
    \/ OnLoad
    \/ OnWindowEvent("scroll", scrollTop, winHeight)
    \/ \E more \in BOOLEAN : OnTimeout(more)

SpecSkip == SkipInit /\ [][SkipNext]_vars

(***************************************************************************)
(* SpecFirst: the first variant on the same page, driven by scroll events, *)
(* animation frames, the page's own calls and edits, and late sheets.      *)
(***************************************************************************)
\* A scroll event arrives, the window by now scrolled to top.
FirstScroll(top) ==
    /\ lock < MaxLock
    /\ scrollTop' = top
    /\ Commit(FirstHook(World))
    /\ call' = [op |-> "scroll", dropped |-> lock # 0]
    /\ UNCHANGED <<geom, conf, winHeight, sheets, timerPending, prop, animVars>>

\* The browser runs a queued animation frame callback.
FirstFrame ==
    /\ frames > 0
    /\ Commit(FirstCallback([World EXCEPT !.frames = frames - 1], Page))
    /\ call' = [op |-> "frame", events |-> lock]
    /\ UNCHANGED <<pageVars, sheets, timerPending, prop, animVars>>

\* $('[parallax]').parallax(param), called by the page's own script.
FirstCall(param) ==
    /\ Commit(FirstParallax(World, Elements, param, Page, 1))
    /\ call' = [op |-> "parallax", param |-> param]
    /\ UNCHANGED <<pageVars, sheets, timerPending, prop, animVars>>

FirstNext ==
    \/ \E top \in ScrollTops : FirstScroll(top)
    \/ FirstFrame
    \/ \E param \in {"", "init"} : FirstCall(param)
    \/ \E element \in ElementSet : \E c \in Confs(element) : Edit(element, c)
    \/ \E sheet \in LaterSheets : LoadSheet(sheet)

SpecFirst == Init /\ [][FirstNext]_vars

(***************************************************************************)
(* SpecPoll: the frame-polling variant on the same page, the window        *)
(* scrolled and resized between the animation frames.                      *)
(***************************************************************************)
PollTops == {0, 450, 1300}

PollHeights == {800, 600}

\* The module as its script leaves it: requestFrame() has run once, found the
\* scroll offset unchanged, and queued itself.
PollInit ==
    /\ geom = Geometry
    /\ conf \in {f \in [ElementSet -> UNION {Confs(e) : e \in ElementSet}] :
                   \A e \in ElementSet : f[e] \in Confs(e)}
    /\ scrollTop \in PollTops
    /\ winHeight = 800
    /\ sheets = InitialSheets
    /\ allRules = <<>>
    /\ parallax = [e \in ElementSet |-> Null]
    /\ attrs = [n \in Nodes |-> NoAttrs]
    /\ data = [n \in Nodes |-> <<>>]
    /\ css = [e \in ElementSet |-> <<>>]
    /\ willChange = [e \in ElementSet |-> <<>>]
    /\ lock = 0
    /\ viewTop = scrollTop
    /\ viewHeight = winHeight
    /\ viewTopLast = scrollTop
    /\ scrolling = "true"
    /\ timerPending = FALSE
    /\ frames = 1
    /\ prop = NewDnaProp(<<>>)
    /\ call = [op |-> "new"]
    /\ attrA = <<>>
    /\ built = NotBuilt

\* The browser runs the queued requestFrame.
PollFrame ==
    /\ frames > 0
    /\ Commit(PollRequestFrame([World EXCEPT !.frames = frames - 1], Page))
    /\ call' = [op |-> "frame", ran |-> scrollTop # viewTopLast]
    /\ UNCHANGED <<pageVars, sheets, timerPending, prop, animVars>>

\* The window is resized to height: the resize handler reads the height.
PollResize(height) ==
    /\ height # winHeight
    /\ winHeight' = height
    /\ viewHeight' = height
    /\ call' = [op |-> "resize"]
    /\ UNCHANGED <<geom, conf, scrollTop, cssVars, parallax, attrs, data, css, willChange,
                   viewTop, viewTopLast, scrolling, lock, frames, timerPending, prop,
                   animVars>>

PollNext ==
    \/ PollFrame
    \/ \E top \in PollTops : ScrollTo(top)
    \/ \E height \in PollHeights : PollResize(height)
    \/ \E sheet \in LaterSheets : LoadSheet(sheet)

SpecPoll == PollInit /\ [][PollNext]_vars

(***************************************************************************)
(* Properties of DnaProp (checked under SpecProp).                         *)
(***************************************************************************)
InUnit(x) == IsRat(x) /\ RLe(Zero, x) /\ RLe(x, One)

Returned == call.op = "get"

\* Indices of the timeline entries whose key is the queried progress.
HitEntries == {i \in 1..Len(prop.list) : prop.list[i].progress = call.progress}

\* C1 as stated: a get(p) with p the key of an entry returns that entry's raw
\* styleText, whatever the key is, also for keys outside [0,1].
C1_ExactHitAnyKey ==
    Returned => \A i \in HitEntries : call.ret = prop.list[i].styleText

\* C1 amended: a get(p) with 0 <= p <= 1 and p the key of an entry returns that
\* entry's raw styleText, whatever the neighbouring entries are; for a key
\* outside [0,1] get returns the empty string.
C1_ExactHitInRange ==
    Returned =>
        \A i \in HitEntries :
            call.ret = IF InUnit(call.progress) THEN prop.list[i].styleText ELSE <<>>

C1_Witness ==
    /\ Returned
    /\ InUnit(call.progress)
    /\ Len(prop.list) = 3
    /\ prop.list[2].progress = call.progress
    /\ prop.list[1].styleText # prop.list[2].styleText
    /\ prop.list[3].styleText # prop.list[2].styleText
    /\ call.ret = prop.list[2].styleText

\* The template with its k-th placeholder replaced by nums[k], position by position.
RECURSIVE Fill(_, _, _)
Fill(template, nums, k) ==
    IF template = <<>> THEN <<>>
    ELSE IF template[1] = "@" /\ k <= Len(nums)
         THEN nums[k] \o Fill(Tail(template), nums, k + 1)
         ELSE <<template[1]>> \o Fill(Tail(template), nums, k)

\* b.values[i] + (a.values[i] - b.values[i]) * (p - b.progress) / (a.progress - b.progress)
Linear(b, a, p, i) ==
    RAdd(b.values[i],
         RDiv(RMul(RSub(a.values[i], b.values[i]), RSub(p, b.progress)),
              RSub(a.progress, b.progress)))

\* Adjacent entries i, i+1 with the query strictly between their keys and the
\* same number of embedded numbers.
Between ==
    {i \in 1..(Len(prop.list) - 1) :
        /\ RLt(prop.list[i].progress, call.progress)
        /\ RLt(call.progress, prop.list[i + 1].progress)
        /\ Len(prop.list[i].values) = Len(prop.list[i + 1].values)}

Interpolated(i) ==
    LET b == prop.list[i]
        a == prop.list[i + 1]
    IN  Fill(b.template,
             [k \in 1..Len(b.values) |-> NumToStr(Linear(b, a, call.progress, k))], 1)

Entries0And10 ==
    /\ Len(prop.list) = 2
    /\ prop.list[1].progress = Zero /\ prop.list[1].styleText = <<"0">>
    /\ prop.list[2].progress = One /\ prop.list[2].styleText = <<"1", "0">>

\* C2 as stated: for every query p strictly between two adjacent entries with the
\* same number of embedded numbers, get(p) is the lower entry's template filled
\* with the linearly interpolated numbers; "0" at 0 and "10" at 1 give "5" at 0.5.
C2_LinearAnyProgress ==
    Returned =>
        /\ \A i \in Between : call.ret = Interpolated(i)
        /\ (Entries0And10 /\ call.progress = Rat(1, 2)) => call.ret = <<"5">>

\* C2 amended: the same for every query p with 0 <= p <= 1; a query outside
\* [0,1] returns the empty string even between two entries.
C2_LinearInRange ==
    Returned =>
        /\ \A i \in Between :
               call.ret = IF InUnit(call.progress) THEN Interpolated(i) ELSE <<>>
        /\ (Entries0And10 /\ call.progress = Rat(1, 2)) => call.ret = <<"5">>

C2_Witness ==
    /\ Returned
    /\ call.progress = Rat(1, 5)
    /\ Len(prop.list) = 3
    /\ prop.list[1].progress = Zero /\ prop.list[1].styleText = <<"1", "0">>
    /\ prop.list[2].progress = Rat(4, 5)
    /\ prop.list[2].styleText = <<"0">>
    /\ Between = {1}
    /\ call.ret = <<"7", ".", "5">>

\* Entries with the lowest and with the highest key, whatever the list order is.
LowestEntries ==
    {i \in 1..Len(prop.list) :
        \A j \in 1..Len(prop.list) : RLe(prop.list[i].progress, prop.list[j].progress)}

HighestEntries ==
    {i \in 1..Len(prop.list) :
        \A j \in 1..Len(prop.list) : RLe(prop.list[j].progress, prop.list[i].progress)}

\* C3: for a non-empty timeline and 0 <= p <= 1, get(p) returns the lowest-key
\* entry's raw value when p is below every key and the highest-key entry's raw
\* value when p is above every key.
C3_ExtrapolationClamp ==
    (Returned /\ InUnit(call.progress) /\ prop.list # <<>>) =>
        /\ (\A j \in 1..Len(prop.list) : RLt(call.progress, prop.list[j].progress)) =>
               \A i \in LowestEntries : call.ret = prop.list[i].styleText
        /\ (\A j \in 1..Len(prop.list) : RLt(prop.list[j].progress, call.progress)) =>
               \A i \in HighestEntries : call.ret = prop.list[i].styleText

C3_Witness ==
    /\ Returned
    /\ call.progress = One
    /\ Len(prop.list) = 2
    /\ prop.list[1].progress = Rat(1, 5)
    /\ prop.list[2].progress = Rat(4, 5)
    /\ prop.list[1].styleText # prop.list[2].styleText
    /\ call.ret = prop.list[2].styleText

(***************************************************************************)
(* Properties of DnaAnim (checked under SpecAnim).                         *)
(***************************************************************************)
Built == built.state = "ok"

\* The tokens of the attribute that the constructor resolves, in order; token j
\* is the source of built.anim.rules[j].
Resolved ==
    SelectSeq(AttrNames(attrA), LAMBDA t : ~Contains(t, S_colon_debugger))

ModifiersOf(token) ==
    LET parts == SplitChar(token, ":")
    IN  [m \in 1..(Len(parts) - 1) |-> SplitModifier(parts[m + 1])]

\* The keyframe percentages of a keyframe rule, divided by 100.
Fractions(kf) ==
    LET l == SplitChar(KeepKeyChars(kf.keyText), ",")
    IN  {NumDivHundred(ParseFloat(l[n])) : n \in 1..Len(l)}

\* Every (source j, property, stored key, value) the attribute contributes, the
\* key being key(fraction, modifiers of source j).
Contributions(key(_, _)) ==
    LET rules == built.anim.rules
        resolved == Resolved
    IN  UNION {LET mods == ModifiersOf(resolved[j])
               IN  UNION {UNION {{[j |-> j, name |-> kf.style[d][1],
                                   key |-> key(f, mods),
                                   value |-> kf.style[d][2]] : d \in 1..Len(kf.style)}
                                 : f \in Fractions(kf)}
                          : kf \in {rules[j].cssRules[n] : n \in 1..Len(rules[j].cssRules)}}
               : j \in 1..Len(rules)}

StoredKey(fraction, modifiers) == ApplyModifiers(fraction, modifiers, 1)

Timeline(name) == built.anim.namedProps[name].list

\* Contributions of two differently listed names to the same property at the
\* same adjusted key, with different values.
Conflicts(all) ==
    {c \in all :
        \E e \in all : e.j # c.j /\ e.name = c.name /\ e.key = c.key /\ e.value # c.value}

\* The values the last-listed of the conflicting names gives to (name, key).
LastValues(all, c) ==
    LET same == {e \in all : e.name = c.name /\ e.key = c.key}
    IN  {e.value : e \in {x \in same : \A y \in same : y.j <= x.j}}

OneEntryOfLast(all, c) ==
    /\ Cardinality({i \in 1..Len(Timeline(c.name)) : Timeline(c.name)[i].progress = c.key}) = 1
    /\ \A i \in 1..Len(Timeline(c.name)) :
           Timeline(c.name)[i].progress = c.key =>
               Timeline(c.name)[i].styleText \in LastValues(all, c)

GotAt(c) == call.op = "get" /\ call.name = c.name /\ call.progress = c.key

\* C4 as stated: when two listed names define the same property at the same
\* adjusted key with different values, the built timeline holds exactly one
\* entry at that key, with the value of the last-listed of them, and get() at
\* that key returns that value.
C4_LastSourceWinsAnyKey ==
    Built =>
        LET all == Contributions(StoredKey)
        IN  \A c \in Conflicts(all) :
                /\ OneEntryOfLast(all, c)
                /\ GotAt(c) => call.ret \in LastValues(all, c)

\* C4 amended: the same, get() at that key returning that value when the key
\* lies in [0,1] and the empty string when it does not.
C4_LastSourceWinsInRange ==
    Built =>
        LET all == Contributions(StoredKey)
        IN  \A c \in Conflicts(all) :
                /\ OneEntryOfLast(all, c)
                /\ GotAt(c) => IF InUnit(c.key) THEN call.ret \in LastValues(all, c)
                               ELSE call.ret = <<>>

C4_Witness ==
    /\ Built
    /\ attrA = S_tint \o <<" ">> \o S_glow
    /\ call.op = "get" /\ call.name = S_color /\ call.progress = Rat(1, 2)
    /\ call.ret = <<"r", "g", "b", "(", "0", ",", "0", ",", "8", ")">>
    /\ Conflicts(Contributions(StoredKey)) # {}

\* The key of a keyframe at fraction p under the modifiers written left to
\* right: the last modifier applied to the key under the modifiers before it.
RECURSIVE ModifiedKey(_, _)
ModifiedKey(p, modifiers) ==
    IF modifiers = <<>> THEN p
    ELSE LET m == modifiers[Len(modifiers)]
             q == ModifiedKey(p, SubSeq(modifiers, 1, Len(modifiers) - 1))
         IN  CASE m[1] = S_reverse -> RSub(One, q)
               [] m[1] = S_shift -> RAdd(q, RDiv(ParseFloat(m[2]), Hundred))
               [] m[1] = S_scale -> RMul(q, ParseFloat(m[2]))

\* The modifier is reverse, shift(x) or scale(x) with a number x.
PlainModifier(m) ==
    \/ m = <<S_reverse>>
    \/ Len(m) = 2 /\ m[1] \in {S_shift, S_scale} /\ ParseFloat(m[2]) # NaN

PlainAttribute ==
    \A j \in 1..Len(Resolved) :
        \A n \in 1..Len(ModifiersOf(Resolved[j])) : PlainModifier(ModifiersOf(Resolved[j])[n])

KeysOf(name) == {Timeline(name)[i].progress : i \in 1..Len(Timeline(name))}

SoleKey(attr, name, key) == attrA = attr => KeysOf(name) = {key}

Stepped(e) == parallax[e] # Null /\ parallax[e].realProgress # undefined

ContainerTop(e) == geom[parallax[e].container].top

ContainerHeight(e) == geom[parallax[e].container].height

\* The divisor and the dividend of the formula, from the page and the viewport.
Span(e) == ContainerHeight(e) + viewHeight

Travelled(e) == viewTop - (ContainerTop(e) - viewHeight)

\* real is travelled / span rounded to 6 fractional digits: a multiple of
\* 1/1000000 that lies within half of 1/1000000 of the quotient (span > 0).
RoundedTo6(real, travelled, span) ==
    /\ IsRat(real)
    /\ LET whole == travelled \div span
           rest == travelled % span
           frac == RSub(real, <<whole, 1>>)
       IN  /\ Million % frac[2] = 0
           /\ 2 * Abs(frac[1] * (Million \div frac[2]) * span - rest * Million) <= span

ClampedTo01(real, p) ==
    /\ RLt(real, Zero) => p = Zero
    /\ RLt(One, real) => p = One
    /\ RLe(Zero, real) /\ RLe(real, One) => p = real

\* The consequences the formula is said to have.
Alignments(e) ==
    LET p == parallax[e].progress
    IN  /\ viewTop + viewHeight = ContainerTop(e) => p = Zero
        /\ 2 * viewTop + viewHeight = 2 * ContainerTop(e) + ContainerHeight(e)
               => p = Rat(1, 2)
        /\ viewTop = ContainerTop(e) + ContainerHeight(e) => p = One
        /\ ( /\ ContainerTop(e) = 1000
             /\ ContainerHeight(e) = 200
             /\ viewHeight = 800
             /\ viewTop = 400 ) => p = Rat(1, 5)

C7_NormalizedProgressInUnit ==
    \A e \in ElementSet : Stepped(e) => InUnit(parallax[e].progress)

(***************************************************************************)
(* Properties of step() and $.fn.parallax (checked under Spec).            *)
(***************************************************************************)
PropertyNames(anim) == {anim.props[i] : i \in 1..Len(anim.props)}

\* The mapping m has exactly the animation's property names as keys, each with
\* the value of get() at progress p.
Emission(m, anim, p) ==
    /\ DOMAIN m = PropertyNames(anim)
    /\ \A name \in PropertyNames(anim) : m[name] = DnaPropGet(anim.namedProps[name], p)

\* C8: each step() hands $element.css() a mapping with exactly one key per
\* property name of the engine's animation, each value being get() at the
\* progress this step computed (the unclamped realProgress); animation fade at
\* progress 0.25 gives {opacity: "0.25"}.
C8_StepEmission ==
    \A e \in ElementSet :
        Stepped(e) =>
            /\ Emission(css[e], parallax[e].anim, parallax[e].realProgress)
            /\ parallax[e].anim.rules = <<R_fade>> /\ parallax[e].realProgress = Rat(1, 4)
                   => /\ DOMAIN css[e] = {S_opacity}
                      /\ css[e][S_opacity] = <<"0", ".", "2", "5">>

\* fade was stepped at progress 0.25 by a pass of the scroll handler.
C8_Witness ==
    /\ call.op = "scroll"
    /\ Stepped("e1")
    /\ parallax["e1"].anim.rules = <<R_fade>>
    /\ parallax["e1"].realProgress = Rat(1, 4)
    /\ css["e1"][S_opacity] = <<"0", ".", "2", "5">>

\* The message is that of a name that could not be resolved.
AnimationError(message) ==
    /\ Len(message) >= Len(S_CannotFindAnimation)
    /\ SubSeq(message, 1, Len(S_CannotFindAnimation)) = S_CannotFindAnimation

\* In this step a construction for e failed on a name, and recorded it.
FailsNow(e) ==
    /\ attrs'[e].status = S_error
    /\ AnimationError(attrs'[e].error)
    /\ attrs'[e] # attrs[e]

\* The recorded message names a name of e's attribute that cannot be resolved.
IdentifiesMissingName(e) ==
    LET names == AttrNames(conf[e].parallax)
    IN  \E k \in 1..Len(names) :
            LET name == SplitChar(names[k], ":")[1]
            IN  /\ attrs'[e].error = S_CannotFindAnimation \o <<"\"">> \o name \o <<"\"">>
                /\ FindRule(allRules', sheets, name).rule = NoRule

\* The last construction for e failed on a name, and e was not stepped since.
Failed(e) == attrs[e].status = S_error /\ AnimationError(attrs[e].error)

\* In this step a construction for e succeeds.
SucceedsNow(e) ==
    /\ parallax'[e] # Null
    /\ attrs'[e].status # S_error
    /\ \/ parallax[e] = Null
       \/ call'.op = "parallax" /\ call'.param = "init" /\ e \in call'.tried

\* C9: whenever $.fn.parallax constructs an engine for an element (first time or
\* forced with 'init') and a name of its attribute cannot be resolved, status
\* 'error' is recorded with a message that identifies the missing name, the
\* element holds no engine (and so no timeline of earlier names) after the call,
\* and no style is applied to it, in this call or in later passes, until a later
\* construction succeeds.
C9_FailedConstructionLeavesNoEngine ==
    [][\A e \in ElementSet :
           /\ FailsNow(e) =>
                  /\ IdentifiesMissingName(e)
                  /\ parallax'[e] = Null
                  /\ css'[e] = css[e]
           /\ Failed(e) /\ ~SucceedsNow(e) => css'[e] = css[e]]_vars

\* The progress a step of e's engine computes in the next state.
FreshProgress(e) ==
    LET c == parallax'[e].container
    IN  Round6(JsDivide(viewTop' - (geom[c].top - viewHeight'),
                        geom[c].height + viewHeight'))

\* In this step e's engine was stepped.
SteppedNow(e) ==
    /\ parallax'[e] # Null
    /\ attrs'[e].status \in {S_on, S_off}
    /\ parallax'[e].realProgress = FreshProgress(e)
    /\ Emission(css'[e], parallax'[e].anim, parallax'[e].realProgress)

\* In this call the construction of e failed.
FailedInCall(e) == e \in call'.tried /\ attrs'[e].status = S_error

\* In this call e got what the call owes it: an element that needs an engine and
\* can have one is constructed and stepped; one that keeps its engine is stepped.
Served(e) ==
    IF e \in call'.tried
    THEN DnaParallax(e, Page, allRules).ok => ~FailedInCall(e) /\ SteppedNow(e)
    ELSE SteppedNow(e)

\* C10: in one $.fn.parallax call over a set of elements, a construction failure
\* of one element (missing animation or missing container) never prevents any
\* other element of the set, before or after it, from being constructed and
\* stepped in that same call.
C10_ErrorIsolation ==
    [][call'.op = "parallax" =>
           \A i, j \in 1..Len(call'.set) :
               i # j /\ FailedInCall(call'.set[i]) => Served(call'.set[j])]_vars

\* A call in which the first element failed on a missing animation and the
\* second, after it, was constructed and stepped.
C10_Witness ==
    /\ call.op = "parallax"
    /\ call.set = <<"e1", "e2">>
    /\ call.tried = {"e1", "e2"}
    /\ attrs["e1"].status = S_error
    /\ AnimationError(attrs["e1"].error)
    /\ parallax["e1"] = Null
    /\ Stepped("e2")
    /\ attrs["e2"].status \in {S_on, S_off}

(***************************************************************************)
(* Properties of the passes (checked under Spec).                          *)
(***************************************************************************)
PassOps == {"load", "wheel", "scroll", "resize"}

\* The last construction for e failed and left it without an engine.
Unresolved(e) == parallax[e] = Null /\ attrs[e].status = S_error

PassRuns ==
    /\ call'.op \in PassOps
    /\ call'.op = "load" => scrolling # "false"
    /\ \/ scrollTop' # viewTopLast
       \/ \E e \in ElementSet : attrs[e].status = <<>>

\* The step leaves e as a construction with outcome r and, on success, a step leave it.
Reconstructed(e, r) ==
    IF r.ok
    THEN parallax'[e] # Null /\ attrs'[e].status \in {S_on, S_off}
    ELSE parallax'[e] = Null /\ attrs'[e].status = S_error /\ attrs'[e].error = r.message

Written == <<parallax, attrs, data, css, allRules>>

\* C12: at no point are two passes pending or in progress at once: at most one
\* callback is queued and lock is non-zero exactly while it is; a scroll event
\* that finds lock non-zero only counts itself in lock: it runs no pass, writes
\* nothing and queues no callback.
C12_ReentrancyGuard ==
    [][/\ frames' \in {0, 1}
       /\ frames' = 1 <=> lock' # 0
       /\ call'.op = "scroll" /\ lock # 0 =>
              /\ frames' = frames
              /\ lock' = lock + 1
              /\ UNCHANGED Written]_vars

\* After an earlier pass, two scroll events were dropped, the second one just now,
\* while the callback of the scroll event before them is still queued.
C12_Witness ==
    /\ call.op = "scroll"
    /\ call.dropped
    /\ lock = 3
    /\ frames = 1
    /\ parallax["e1"] # Null

(***************************************************************************)
(* Properties of step() on a live page (checked under SpecLayout).         *)
(***************************************************************************)
\* The last step was a $.fn.parallax call of the page that stepped e.
SteppedByCall(e) ==
    /\ call.op = "parallax"
    /\ \E i \in 1..Len(call.set) : call.set[i] = e
    /\ attrs[e].status \in {S_on, S_off}

\* In this step a pass runs, and it steps e: e has its engine and is not off.
SteppedByPass(e) == PassRuns /\ parallax[e] # Null /\ attrs[e].status = S_on

\* This step changes neither layout nor window.
SamePage == UNCHANGED <<geom, scrollTop, winHeight>>

\* C13: two step() calls on an engine under identical current container
\* geometry, viewport height and scroll offset hand $element.css() identical
\* mappings: a step reached through a direct $(el).parallax() call and the step
\* of the pass that follows it on the unchanged page emit the same mapping.
C13_StepPurity ==
    [][\A e \in ElementSet :
           /\ SteppedByCall(e)
           /\ SteppedByPass(e)
           /\ SamePage
           /\ parallax'[e].anim = parallax[e].anim
           => css'[e] = css[e]]_vars

\* The elements that the $.fn.parallax call of this step stepped.
SteppedInCall ==
    {e \in ElementSet :
        /\ \E i \in 1..Len(call'.set) : call'.set[i] = e
        /\ attrs'[e].status \in {S_on, S_off}}

\* C20: the container offset that calculateProgress uses for an element stepped
\* in a $.fn.parallax call was read from the layout during that call: it is the
\* container's top as the layout has it at the call, also for an element that
\* this call constructs; an offset cached by an earlier call is not used.
C20_GeometryCacheFresh ==
    [][call'.op = "parallax" =>
           \A e \in SteppedInCall :
               data'[parallax'[e].container] = <<geom[parallax'[e].container].top>>]_vars

(***************************************************************************)
(* Properties of the stored values (checked under SpecValue).              *)
(***************************************************************************)
\* The template of the entry with its placeholders replaced, left to right, by
\* the entry's numbers in order.
Reinserted(entry) ==
    Fill(entry.template, [k \in 1..Len(entry.values) |-> NumToStr(entry.values[k])], 1)

CanonicalLiteral(l) ==
    LET sg == IF l[1] \in {"+", "-"} THEN 1 ELSE 0
        n1 == DigitsRun(l, sg + 1)
    IN  /\ l[1] # "+"
        /\ n1 = 1 \/ l[sg + 1] # "0"
        /\ l[Len(l)] # "0" \/ Len(l) = sg + n1
        /\ sg = 1 => \E k \in 2..Len(l) : l[k] \in Digits \ {"0"}

\* The raw value has no '@' of its own and only canonical literals.
Canonical(styleText) ==
    /\ IndexOf(styleText, "@", 1) = 0
    /\ \A k \in 1..Len(MatchAll(styleText, 1)) : CanonicalLiteral(MatchAll(styleText, 1)[k])

Interpolates ==
    /\ Returned
    /\ InUnit(call.progress)
    /\ Len(prop.list) = 2
    /\ RLt(prop.list[1].progress, call.progress)
    /\ RLt(call.progress, prop.list[2].progress)

EndsInColor(name) ==
    Len(name) >= 5 /\ SubSeq(name, Len(name) - 4, Len(name)) = S_color

\* The k-th number of an entry; where it has none: 1 for the 4th component of a
\* colour, and the other entry's k-th number otherwise.
Component(entry, other, k) ==
    IF k <= Len(entry.values) THEN entry.values[k]
    ELSE IF EndsInColor(prop.name) /\ k = 4 THEN One
    ELSE other.values[k]

\* C16: when get(p) interpolates between entries b and a with different numbers
\* of numbers, a number that one side lacks is taken as 1 if the property name
\* ends in "color" and it is the 4th component, and as the other side's number
\* otherwise (the component is constant over the interval); the interpolated
\* numbers fill the placeholders of b's template in order.
C16_ArityMismatchFallback ==
    LET b == prop.list[1]
        a == prop.list[2]
        ratio == RDiv(RSub(call.progress, b.progress), RSub(a.progress, b.progress))
    IN  Interpolates /\ Len(b.values) # Len(a.values) =>
            call.ret =
                Fill(b.template,
                     [k \in 1..Max(Len(b.values), Len(a.values)) |->
                         NumToStr(RAdd(Component(b, a, k),
                                       RMul(RSub(Component(a, b, k), Component(b, a, k)),
                                            ratio)))],
                     1)

\* A colour between rgba(0,0,8,0.5) at 50% and rgb(8,0,0) at 150%, asked at 75%:
\* the alpha that rgb lacks is 1.
C16_Witness ==
    /\ Interpolates
    /\ prop.name = S_color
    /\ call.progress = Rat(3, 4)
    /\ prop.list[1].styleText = <<"r", "g", "b", "a", "(", "0", ",", "0", ",", "8", ",", "0", ".", "5", ")">>
    /\ prop.list[2].styleText = <<"r", "g", "b", "(", "8", ",", "0", ",", "0", ")">>
    /\ call.ret = <<"r", "g", "b", "a", "(", "2", ",", "0", ",", "6", ",", "0", ".", "6", "2", "5", ")">>

\* The raw value has no embedded number.
Keyword(styleText) == MatchAll(styleText, 1) = <<>>

StoredVerbatim ==
    \A i \in 1..Len(prop.list) :
        Keyword(prop.list[i].styleText) =>
            prop.list[i].values = <<>> /\ prop.list[i].template = prop.list[i].styleText

\* The query lies strictly between the keys of the two entries.
InInterval ==
    /\ Returned
    /\ Len(prop.list) = 2
    /\ RLt(prop.list[1].progress, call.progress)
    /\ RLt(call.progress, prop.list[2].progress)

\* C17 as stated: a raw value without numbers is stored with no values and
\* itself as template, and get() returns it verbatim for every progress of the
\* interval above it, whatever the upper neighbour's value is.
C17_KeywordAnyProgress ==
    /\ StoredVerbatim
    /\ InInterval /\ Keyword(prop.list[1].styleText) => call.ret = prop.list[1].styleText

\* C17 amended: the same for every progress of the interval that lies in
\* [0,1] and a raw value without '@'; beyond [0,1] get() returns the empty
\* string, and a '@' of the raw value is replaced by the upper neighbour's
\* first number.
C17_KeywordInRange ==
    /\ StoredVerbatim
    /\ InInterval /\ Keyword(prop.list[1].styleText) =>
           call.ret = IF ~InUnit(call.progress) THEN <<>>
                      ELSE IF IndexOf(prop.list[1].styleText, "@", 1) = 0
                           \/ prop.list[2].values = <<>>
                           THEN prop.list[1].styleText
                      ELSE ReplaceFirst(prop.list[1].styleText, "@",
                                        NumToStr(prop.list[2].values[1]))

\* "none" at 50% below "4px 8px" at 150%, asked at 75%.
C17_Witness ==
    /\ InInterval
    /\ call.progress = Rat(3, 4)
    /\ prop.list[1].styleText = <<"n", "o", "n", "e">>
    /\ prop.list[2].styleText = <<"4", "p", "x", " ", "8", "p", "x">>
    /\ call.ret = <<"n", "o", "n", "e">>

(***************************************************************************)
(* Properties of the timeline (checked under SpecProp).                    *)
(***************************************************************************)
StrictlyIncreasing(list) ==
    \A i \in 1..(Len(list) - 1) : RLt(list[i].progress, list[i + 1].progress)

\* The entry is the one of the add() of this step.
Added(entry) == entry.progress = call'.progress /\ entry.styleText = call'.styleText

\* The list new is the list old with the added entry put in at position j.
InsertedAt(old, new, j) ==
    /\ Added(new[j])
    /\ \A i \in 1..Len(old) : new[IF i < j THEN i ELSE i + 1] = old[i]

C18_OutOfRangeSuppression ==
    Returned =>
        /\ RLt(call.progress, Zero) \/ RLt(One, call.progress) => call.ret = <<>>
        /\ ( /\ InUnit(call.progress)
             /\ \A i \in 1..Len(prop.list) : prop.list[i].styleText # <<>> )
               => call.ret # <<>>

\* get(0) on a timeline whose keys are all above 0, one of them above 1: the
\* first entry's value, not the empty string.
C18_Witness ==
    /\ Returned
    /\ call.progress = Zero
    /\ Len(prop.list) = 2
    /\ prop.list[1].progress = Rat(1, 5)
    /\ prop.list[2].progress = Rat(3, 2)
    /\ call.ret = prop.list[1].styleText
    /\ call.ret # <<>>

(***************************************************************************)
(* Properties of the status (checked under SpecProgress).                  *)
(***************************************************************************)
Suppressed(e) == \A name \in DOMAIN css[e] : css[e][name] = <<>>

\* C19: after every step() of an element its status is 'off' exactly when the
\* real progress of that step is below 0 or above 1, and 'on' otherwise; so the
\* status is 'off' exactly when every value of the mapping emitted is empty.
C19_StatusReporting ==
    \A e \in ElementSet :
        Stepped(e) =>
            /\ attrs[e].status \in {S_on, S_off}
            /\ attrs[e].status = S_off
                   <=> \/ NumLt(parallax[e].realProgress, Zero)
                       \/ NumGt(parallax[e].realProgress, One)
            /\ attrs[e].status = S_off <=> Suppressed(e)

\* e1 was stepped at real progress exactly 0 and is 'on' with a value, while e2
\* is 'off' with none.
C19_Witness ==
    /\ Stepped("e1")
    /\ Stepped("e2")
    /\ parallax["e1"].realProgress = Zero
    /\ attrs["e1"].status = S_on
    /\ css["e1"][S_opacity] = <<"0">>
    /\ attrs["e2"].status = S_off
    /\ css["e2"][S_opacity] = <<>>

(***************************************************************************)
(* Properties of the rule cache (checked under SpecAnim).                  *)
(***************************************************************************)
\* C21: across the constructions of DnaAnim the cache allRules only grows: a
\* name it maps to a rule keeps that rule, never removed and never replaced by
\* another rule, so the name resolves to the same rule in every construction.
C21_CacheAppendOnly ==
    [][\A name \in DOMAIN allRules :
           name \in DOMAIN allRules' /\ allRules'[name] = allRules[name]]_vars

\* The name the token asks for: what stands before its first ':'.
NameOf(token) == SplitChar(token, ":")[1]

\* The @keyframes rules of the sheets whose cssRules can be read.
ReadableRules ==
    UNION {{r \in {sheets[i].cssRules[j] : j \in 1..Len(sheets[i].cssRules)} :
                r.type = KEYFRAMES_RULE}
           : i \in {k \in 1..Len(sheets) : sheets[k].readable}}

Defined(name) == \E r \in ReadableRules : r.name = name

\* A construction has just ended, in a document with a sheet that cannot be read.
ConstructedPastUnreadable ==
    /\ call.op = "new"
    /\ built.state # "none"
    /\ \E i \in 1..Len(sheets) : ~sheets[i].readable

\* C22: a sheet whose rules cannot be read does not make the resolution fail:
\* the scan goes on with the other sheets, and when every name of the attribute
\* is defined in a readable sheet, before or after the unreadable one, the
\* construction succeeds with a rule of that name from a readable sheet for
\* each; a failure names a name that no readable sheet defines.
C22_UnreadableSheetSkipped ==
    ConstructedPastUnreadable =>
        /\ (\A k \in 1..Len(Resolved) : Defined(NameOf(Resolved[k]))) => Built
        /\ Built =>
               /\ Len(built.anim.rules) = Len(Resolved)
               /\ \A k \in 1..Len(Resolved) :
                      /\ built.anim.rules[k] \in ReadableRules
                      /\ built.anim.rules[k].name = NameOf(Resolved[k])
        /\ built.state = "error" =>
               \E k \in 1..Len(Resolved) :
                   /\ ~Defined(NameOf(Resolved[k]))
                   /\ built.message =
                          S_CannotFindAnimation \o <<"\"">> \o NameOf(Resolved[k]) \o <<"\"">>

\* "fade tint": fade from the sheet before the unreadable one, tint from the
\* sheet after it, glow of that sheet not reached.
C22_Witness ==
    /\ ConstructedPastUnreadable
    /\ attrA = S_fade \o <<" ">> \o S_tint
    /\ ~sheets[2].readable
    /\ Built
    /\ built.anim.rules = <<R_fade, R_tint>>
    /\ DOMAIN allRules = {S_fade, S_pts, S_tint}

\* The modifier's keyword is one of reverse, shift and scale.
KnownModifier(m) == m[1] \in {S_reverse, S_shift, S_scale}

\* Some token of the attribute has a modifier with another keyword.
HasUnknownModifier ==
    \E k \in 1..Len(AttrNames(attrA)) :
        \E n \in 1..Len(ModifiersOf(AttrNames(attrA)[k])) :
            ~KnownModifier(ModifiersOf(AttrNames(attrA)[k])[n])

\* The key stored for a fraction when the modifiers with other keywords are
\* left out of the token.
KeyWithoutUnknown(fraction, modifiers) ==
    ApplyModifiers(fraction, SelectSeq(modifiers, KnownModifier), 1)

\* C23: an attribute with a token whose modifiers include a keyword other than
\* reverse, shift and scale is still constructed, every token's rule parsed,
\* and the keyframes of each token are stored under the keys they would have
\* without that modifier, the token's other modifiers applied in order.
C23_UnknownModifierIgnored ==
    ( /\ call.op = "new"
      /\ built.state # "none"
      /\ HasUnknownModifier
      /\ \A k \in 1..Len(AttrNames(attrA)) : Defined(NameOf(AttrNames(attrA)[k])) )
    => /\ Built
       /\ Len(built.anim.rules) = Len(AttrNames(attrA))
       /\ LET all == Contributions(KeyWithoutUnknown)
          IN  /\ DOMAIN built.anim.namedProps = {c.name : c \in all}
              /\ \A name \in DOMAIN built.anim.namedProps :
                     KeysOf(name) = {c.key : c \in {x \in all : x.name = name}}

(***************************************************************************)
(* Properties of step() on engines that exist (checked under SpecLayout).  *)
(***************************************************************************)
\* Every element has its engine, and this step is a pass or a plain
\* $.fn.parallax() call: what it runs on the elements is step() alone.
StepsOnly ==
    /\ \A e \in ElementSet : parallax[e] # Null
    /\ \/ call'.op \in PassOps
       \/ call'.op = "parallax" /\ call'.param = ""

\* C24: step() on an engine that exists changes the engine's progress and
\* realProgress and the status and style reported, and leaves the engine's
\* animation (the order of props, every timeline's entries with their values
\* and templates), the engine's container and the rule cache as they were,
\* however many steps run.
C24_StepFrameCondition ==
    [][StepsOnly =>
           /\ \A e \in ElementSet :
                  /\ parallax'[e] # Null
                  /\ parallax'[e].anim = parallax[e].anim
                  /\ parallax'[e].container = parallax[e].container
           /\ allRules' = allRules]_vars

\* A plain $('[parallax]').parallax() found both engines in place and stepped
\* them at scroll offset 450, e1 with its opacity timeline as constructed.
C24_Witness ==
    /\ call.op = "parallax"
    /\ call.param = ""
    /\ call.set = Elements
    /\ call.tried = {}
    /\ viewTop = 450
    /\ Stepped("e1")
    /\ Stepped("e2")
    /\ attrs["e1"].status = S_on
    /\ css["e1"][S_opacity] = <<"0", ".", "2", "5">>
    /\ parallax["e1"].anim.props = <<S_opacity>>
    /\ Len(parallax["e1"].anim.namedProps[S_opacity].list) = 2

(***************************************************************************)
(* Properties of the first variant's frames (checked under SpecFirst).     *)
(***************************************************************************)
\* The progress of e's engine as the live window and layout give it.
LiveProgress(e) ==
    LET c == parallax'[e].container
    IN  Clamp(Round6(JsDivide(scrollTop' - (geom'[c].top - winHeight'),
                              geom'[c].height + winHeight')))

\* C25: from the scroll event that schedules an animation frame callback until
\* that callback runs, further scroll events schedule none: at most one
\* callback is queued, and one is queued exactly while lock is set; the
\* callback runs one pass for the whole burst, on the scroll position the
\* window has when it runs, and leaves no callback queued.
C25_FrameCoalescing ==
    [][/\ frames' \in {0, 1}
       /\ frames' = 1 <=> lock' # 0
       /\ call'.op = "scroll" /\ lock # 0 => frames' = frames
       /\ call'.op = "frame" =>
              /\ frames = 1 /\ frames' = 0
              /\ \A e \in ElementSet :
                     parallax'[e] # Null => parallax'[e].progress = LiveProgress(e)]_vars

\* Three scroll events, the last to offset 450, then the one callback: e1 at
\* the progress of offset 450.
C25_Witness ==
    /\ call.op = "frame"
    /\ call.events = MaxLock
    /\ frames = 0
    /\ lock = 0
    /\ scrollTop = 450
    /\ parallax["e1"] # Null
    /\ parallax["e1"].progress = Rat(1, 4)

(***************************************************************************)
(* Properties of the frame-polling variant (checked under SpecPoll).       *)
(***************************************************************************)
\* C26: the polling loop comes to rest only on the current scroll offset:
\* whenever the next frames would run no pass, the scroll offset being equal
\* to viewTopLast, the viewTop of the last pass is that offset; so once the
\* offset stops changing, no sequence of offsets leaves the elements computed
\* from another offset.
C26_PollingConverges ==
    scrollTop = viewTopLast => viewTop = scrollTop

(***************************************************************************)
(* Properties of the passes (checked under SpecLayout).                    *)
(***************************************************************************)
\* A resize event is handled that finds the window at another height and at
\* the scroll offset of the last pass.
ResizedOnly ==
    /\ call'.op = "resize"
    /\ winHeight' # winHeight
    /\ scrollTop' = viewTop

\* C27: after a resize event that changes the height of the window, the
\* scroll offset unchanged, the requestFrame of the handler runs a pass that
\* steps every element whose status is not 'off': its progress is computed
\* again, from the new height.
C27_ResizeRecomputes ==
    [][ResizedOnly =>
           \A e \in ElementSet :
               parallax[e] # Null /\ attrs[e].status # S_off =>
                   /\ parallax'[e] # Null
                   /\ parallax'[e].realProgress = FreshProgress(e)]_vars

(***************************************************************************)
(* Properties of the busy flag (checked under Spec).                       *)
(***************************************************************************)
\* C28: when requestFrame has finished, lock is 0, also when the construction
\* of an element raised an error during the pass; so the next trigger is not
\* turned away: whenever a pass is due, it runs, on the current scroll offset.
C28_BusyFlagReleased ==
    [][call'.op \in PassOps =>
           /\ lock' = 0
           /\ PassRuns => viewTop' = scrollTop']_vars

\* A scroll event's pass tried e1 again, whose animation nope is missing, and
\* left lock at 0.
C28_Witness ==
    /\ call.op = "scroll"
    /\ conf["e1"].parallax = S_fade \o <<" ">> \o S_nope
    /\ parallax["e1"] = Null
    /\ attrs["e1"].status = S_error
    /\ attrs["e1"].error = S_CannotFindAnimation \o <<"\"">> \o S_nope \o <<"\"">>
    /\ viewTop = 450
    /\ viewTopLast = 450
    /\ lock = 0

(***************************************************************************)
(* Properties of the pass loop (checked under SpecLayout).                 *)
(***************************************************************************)
\* What the calls of animateFrame return that the loop of requestFrame makes
\* from the world w, in order.
RECURSIVE LoopReturns(_, _)
LoopReturns(w, page) ==
    IF w.scrolling = "false" THEN <<>>
    ELSE LET More(r) == <<r.ret>> \o (IF r.ret THEN LoopReturns(r.w, page) ELSE <<>>)
         IN  More(AnimateFrame(w, page))

\* The world in which the requestFrame of this step enters its loop: the event
\* handlers have called scrollingOn and, on resize, read the height.
AtLoop ==
    IF call'.op = "load" THEN World
    ELSE [World EXCEPT !.scrolling = "true",
                       !.viewHeight = IF call'.op = "resize" THEN winHeight' ELSE viewHeight]

\* C29: an invocation of requestFrame during which the scroll offset does not
\* change calls animateFrame at most three times, the last call returning
\* false, and ends with viewTop = viewTopLast = the scroll offset and with a
\* status on every element.
C29_PassLoopTermination ==
    [][call'.op \in PassOps /\ lock = 0 =>
           LET Ends(returns) ==
                   /\ Len(returns) \in 1..3
                   /\ ~returns[Len(returns)]
           IN  /\ Ends(LoopReturns(AtLoop, Page'))
               /\ viewTop' = scrollTop'
               /\ viewTopLast' = scrollTop'
               /\ \A e \in ElementSet : attrs'[e].status # <<>>]_vars

(***************************************************************************)
(* Properties of the skipped elements (checked under SpecSkip).            *)
(***************************************************************************)
\* The parallax-progress a step of e's engine records in the next state.
FreshProgressText(e) == FloorTimes(Clamp(FreshProgress(e)), 100, 1) \o <<"%">>

\* C30: leaving out the elements that are off at the edge they left by loses
\* nothing: with the layout and the height of the window fixed, after every
\* pass the status and the parallax-progress recorded on every element that
\* has an engine are those its step() computes at the pass's scroll offset.
C30_SkippingSound ==
    [][PassRuns =>
           \A e \in ElementSet :
               parallax'[e] # Null =>
                   /\ attrs'[e].status = Status(FreshProgress(e))
                   /\ attrs'[e].progress = FreshProgressText(e)]_vars

====
